---- MODULE Spec2Model ----
(***************************************************************************)
(* State-machine model of SceneManager (SceneManager.cpp): the texture     *)
(* registry, the material catalog, the shader-uniform writes and the       *)
(* per-frame draw script of RenderScene, together with the OpenGL state    *)
(* (texture names, texture-unit bindings, GL_CULL_FACE) those calls touch. *)
(*                                                                         *)
(* Floating-point literals are kept as fixed-point integers in units of    *)
(* 1/10000 (0.45f is 4500, 2.0f is 20000).                                 *)
(***************************************************************************)
EXTENDS Integers, Sequences, FiniteSets, TLC

\* ------------------------------------------------------------------ bounds

\* Number of registry entries CreateGLTexture may fill in a run of the model.
MaxTextures == 2

\* OpenGL texture names glGenTextures may hand out: 1..MaxHandle.
MaxHandle == 3

\* Number of ViewManager objects constructed.
MaxViewManagers == 2

\* Number of mouse movements handed to one Camera.
MaxMouseMoves == 2

\* Number of times DefineObjectMaterials (PrepareScene) may run.
MaxDefines == 2

\* Room in the registry for the entries LoadSceneTextures adds.
MaxSceneTextures == 8

\* Texture names glGenTextures hands out during LoadSceneTextures.
MaxSceneHandle == 9

\* ------------------------------------------------------------------ inputs

\* Tags handed to CreateGLTexture ("pot" and "wood" are two of the tags
\* LoadSceneTextures registers).
TextureTagInputs == {"pot", "wood"}

\* The tags LoadSceneTextures registers, in the order of its calls.
SceneTextures_WithoutWall ==
  <<"pot", "wood", "woodie", "coaster", "toptable", "bottomtable", "napkin">>

SceneTextures ==
  <<"pot", "wood", "woodie", "coaster", "toptable", "bottomtable", "napkin", "wall">>

\* Outcome of stbi_load for each file of LoadSceneTextures: any subset of
\* the files gives an image with three channels, the others all give a null
\* image or all give an image with one channel.
SceneImageInputs ==
  { [k \in 1..Len(SceneTextures) |-> IF k \in ok THEN 3 ELSE bad] :
      ok \in SUBSET (1..Len(SceneTextures)), bad \in {0, 1} }

\* Arguments of SetTransformations called directly: whole scales and
\* translations, and rotations by multiples of 90 degrees (in 1/10000 degree).
ScaleInputs == {<<10000, 10000, 10000>>, <<20000, 30000, 40000>>}

PositionInputs == {<<0, 0, 0>>, <<50000, -60000, 70000>>}

QuarterTurnInputs == {-900000, 0, 900000, 1800000}

\* Outcomes of LoadSceneTextures ahead of a frame: every file loads, or
\* every file but wall.jpg does.
FrameImageInputs ==
  { [k \in 1..Len(SceneTextures) |-> 3],
    [k \in 1..Len(SceneTextures) |-> IF SceneTextures[k] = "wall" THEN 0 ELSE 3] }

\* The first texture name a GL context hands out during LoadSceneTextures.
FirstNameInputs == {1, 2}

\* Tags looked up after LoadSceneTextures: its first, second and last, and
\* one it does not register.
SceneLookupInputs == {"pot", "wood", "wall", "marble"}

\* Tags handed to the texture lookups; "marble" is never registered.
TextureLookupInputs == TextureTagInputs \cup {"marble"}

\* Outcome of stbi_load: 0 stands for a null image (decode failure), any
\* other value is the colorChannels the decoder reported.
ImageInputs == {0, 1, 3, 4}

\* Cursor positions GLFW reports, in 2^-20 pixel: the window's centre, a
\* position with sub-pixel fractions that no 32-bit float holds, and a
\* whole-pixel position.
MouseInputs ==
  {<<500 * 2^20, 400 * 2^20>>, <<501 * 2^20 + 1, 400 * 2^20 + 17>>, <<499 * 2^20, 401 * 2^20>>}

\* Keys held down during a ProcessKeyboardEvents.
KeyInputs == SUBSET {"O", "P"}

\* Colors handed to SetShaderColor by a direct caller.
ColorInputs == {<<1600, 1100, 700, 10000>>}

\* ---------------------------------------------------- data of the program

MaterialPresets ==
  << [tag |-> "grayMatte", diffuseColor |-> <<4500, 4500, 4500>>, specularColor |-> <<1000, 1000, 1000>>, shininess |-> 20000],
     [tag |-> "ceramic", diffuseColor |-> <<9500, 9300, 9000>>, specularColor |-> <<2000, 2000, 1900>>, shininess |-> 120000],
     [tag |-> "wood", diffuseColor |-> <<6000, 4000, 2000>>, specularColor |-> <<1500, 1000, 500>>, shininess |-> 80000],
     [tag |-> "woodie", diffuseColor |-> <<5500, 3500, 1800>>, specularColor |-> <<2000, 1500, 800>>, shininess |-> 120000],
     [tag |-> "lightWood", diffuseColor |-> <<7500, 6500, 5000>>, specularColor |-> <<1000, 1000, 800>>, shininess |-> 40000],
     [tag |-> "darkMetal", diffuseColor |-> <<800, 800, 800>>, specularColor |-> <<6000, 6000, 6000>>, shininess |-> 320000],
     [tag |-> "counter", diffuseColor |-> <<8200, 7800, 7200>>, specularColor |-> <<9200, 9000, 8800>>, shininess |-> 1280000],
     [tag |-> "tableTop", diffuseColor |-> <<8000, 7600, 7000>>, specularColor |-> <<9800, 9700, 9500>>, shininess |-> 2560000],
     [tag |-> "metal", diffuseColor |-> <<5000, 5000, 5000>>, specularColor |-> <<6000, 6000, 6000>>, shininess |-> 240000],
     [tag |-> "foliage", diffuseColor |-> <<1600, 4600, 1400>>, specularColor |-> <<1200, 2200, 1000>>, shininess |-> 140000],
     [tag |-> "bark", diffuseColor |-> <<3000, 2400, 1800>>, specularColor |-> <<500, 400, 300>>, shininess |-> 20000],
     [tag |-> "soil", diffuseColor |-> <<2500, 1800, 1000>>, specularColor |-> <<200, 200, 200>>, shininess |-> 10000],
     [tag |-> "napkin", diffuseColor |-> <<9500, 9500, 9300>>, specularColor |-> <<1000, 1000, 1000>>, shininess |-> 40000],
     [tag |-> "wall", diffuseColor |-> <<9500, 9500, 9000>>, specularColor |-> <<200, 200, 200>>, shininess |-> 10000],
     [tag |-> "cabinetWhite", diffuseColor |-> <<7800, 7800, 7700>>, specularColor |-> <<1200, 1200, 1100>>, shininess |-> 120000],
     [tag |-> "stainless", diffuseColor |-> <<4000, 4000, 4100>>, specularColor |-> <<5500, 5500, 5600>>, shininess |-> 480000],
     [tag |-> "fridgeHandle", diffuseColor |-> <<1400, 1400, 1400>>, specularColor |-> <<3500, 3500, 3500>>, shininess |-> 320000] >>

\* Tags handed to the material lookups: every preset's tag; "marble" is never defined.
MaterialLookupInputs ==
  {MaterialPresets[k].tag : k \in 1..Len(MaterialPresets)} \cup {"marble"}

LightUniformWrites ==
  << <<"bUseLighting", TRUE>>,
     <<"directionalLight.bActive", TRUE>>,
     <<"directionalLight.direction", <<10000, -5500, -4000>>>>,
     <<"directionalLight.ambient", <<700, 600, 600>>>>,
     <<"directionalLight.diffuse", <<2400, 2300, 2200>>>>,
     <<"directionalLight.specular", <<1000, 1000, 1000>>>>,
     <<"pointLights[0].bActive", TRUE>>,
     <<"pointLights[0].position", <<-140000, 90000, 180000>>>>,
     <<"pointLights[0].ambient", <<800, 700, 700>>>>,
     <<"pointLights[0].diffuse", <<5000, 4800, 4600>>>>,
     <<"pointLights[0].specular", <<1400, 1300, 1200>>>>,
     <<"pointLights[1].bActive", TRUE>>,
     <<"pointLights[1].position", <<-80000, 160000, 60000>>>>,
     <<"pointLights[1].ambient", <<500, 600, 800>>>>,
     <<"pointLights[1].diffuse", <<1800, 2100, 2600>>>>,
     <<"pointLights[1].specular", <<500, 600, 800>>>>,
     <<"pointLights[2].bActive", TRUE>>,
     <<"pointLights[2].position", <<0, 30000, 140000>>>>,
     <<"pointLights[2].ambient", <<700, 700, 600>>>>,
     <<"pointLights[2].diffuse", <<3800, 3700, 3500>>>>,
     <<"pointLights[2].specular", <<1200, 1200, 1100>>>>,
     <<"pointLights[3].bActive", TRUE>>,
     <<"pointLights[3].position", <<-20000, 180000, 20000>>>>,
     <<"pointLights[3].ambient", <<500, 500, 500>>>>,
     <<"pointLights[3].diffuse", <<1800, 1800, 1800>>>>,
     <<"pointLights[3].specular", <<400, 400, 400>>>>,
     <<"pointLights[4].bActive", FALSE>>,
     <<"spotLight.bActive", FALSE>> >>

RenderSceneScript ==
  << [op |-> "SetTransformations", line |-> 593, scaleXYZ |-> <<600000, 200000, 3000>>, rotationDegrees |-> <<0, 0, 0>>, positionXYZ |-> <<0, 60000, -110000>>],
     [op |-> "SetShaderTexture", line |-> 594, tag |-> "wall"],
     [op |-> "SetTextureUVScale", line |-> 595, uv |-> <<10000, 10000>>],
     [op |-> "SetShaderMaterial", line |-> 596, tag |-> "wall"],
     [op |-> "Draw", line |-> 597, mesh |-> "DrawBoxMesh", args |-> ""],
     [op |-> "SetTransformations", line |-> 602, scaleXYZ |-> <<600000, 3000, 60000>>, rotationDegrees |-> <<0, 0, 0>>, positionXYZ |-> <<0, -38500, -80000>>],
     [op |-> "SetShaderColor", line |-> 603, color |-> <<1600, 1100, 700, 10000>>],
     [op |-> "SetShaderMaterial", line |-> 604, tag |-> "bark"],
     [op |-> "Draw", line |-> 605, mesh |-> "DrawBoxMesh", args |-> ""],
     [op |-> "SetTransformations", line |-> 610, scaleXYZ |-> <<600000, 15000, 40000>>, rotationDegrees |-> <<0, 0, 0>>, positionXYZ |-> <<0, 152500, -90000>>],
     [op |-> "SetShaderTexture", line |-> 611, tag |-> "wall"],
     [op |-> "SetTextureUVScale", line |-> 612, uv |-> <<10000, 10000>>],
     [op |-> "SetShaderMaterial", line |-> 613, tag |-> "wall"],
     [op |-> "Draw", line |-> 614, mesh |-> "DrawBoxMesh", args |-> ""],
     [op |-> "SetTransformations", line |-> 623, scaleXYZ |-> <<55000, 75000, 7000>>, rotationDegrees |-> <<0, 0, 0>>, positionXYZ |-> <<-95000, 85000, -106500>>],
     [op |-> "SetShaderColor", line |-> 624, color |-> <<7800, 7800, 7700, 10000>>],
     [op |-> "SetShaderMaterial", line |-> 625, tag |-> "cabinetWhite"],
     [op |-> "Draw", line |-> 626, mesh |-> "DrawBoxMesh", args |-> ""],
     [op |-> "SetTransformations", line |-> 631, scaleXYZ |-> <<55000, 70000, 7000>>, rotationDegrees |-> <<0, 0, 0>>, positionXYZ |-> <<-95000, 5000, -106500>>],
     [op |-> "SetShaderColor", line |-> 632, color |-> <<7800, 7800, 7700, 10000>>],
     [op |-> "SetShaderMaterial", line |-> 633, tag |-> "cabinetWhite"],
     [op |-> "Draw", line |-> 634, mesh |-> "DrawBoxMesh", args |-> ""],
     [op |-> "SetTransformations", line |-> 639, scaleXYZ |-> <<44000, 68000, 1200>>, rotationDegrees |-> <<0, 0, 0>>, positionXYZ |-> <<-95000, 85000, -102400>>],
     [op |-> "SetShaderColor", line |-> 640, color |-> <<7200, 7200, 7100, 10000>>],
     [op |-> "SetShaderMaterial", line |-> 641, tag |-> "cabinetWhite"],
     [op |-> "Draw", line |-> 642, mesh |-> "DrawBoxMesh", args |-> ""],
     [op |-> "SetTransformations", line |-> 647, scaleXYZ |-> <<44000, 63000, 1200>>, rotationDegrees |-> <<0, 0, 0>>, positionXYZ |-> <<-95000, 5000, -102400>>],
     [op |-> "SetShaderColor", line |-> 648, color |-> <<7200, 7200, 7100, 10000>>],
     [op |-> "SetShaderMaterial", line |-> 649, tag |-> "cabinetWhite"],
     [op |-> "Draw", line |-> 650, mesh |-> "DrawBoxMesh", args |-> ""],
     [op |-> "SetTransformations", line |-> 655, scaleXYZ |-> <<55000, 2500, 7500>>, rotationDegrees |-> <<0, 0, 0>>, positionXYZ |-> <<-95000, 42000, -106000>>],
     [op |-> "SetShaderColor", line |-> 656, color |-> <<7800, 7800, 7700, 10000>>],
     [op |-> "SetShaderMaterial", line |-> 657, tag |-> "cabinetWhite"],
     [op |-> "Draw", line |-> 658, mesh |-> "DrawBoxMesh", args |-> ""],
     [op |-> "SetTransformations", line |-> 666, scaleXYZ |-> <<1200, 12000, 1200>>, rotationDegrees |-> <<0, 0, 0>>, positionXYZ |-> <<-77000, 85000, -101100>>],
     [op |-> "SetShaderColor", line |-> 667, color |-> <<5500, 5500, 5500, 10000>>],
     [op |-> "SetShaderMaterial", line |-> 668, tag |-> "metal"],
     [op |-> "Draw", line |-> 669, mesh |-> "DrawCylinderMesh", args |-> "false,false,true"],
     [op |-> "SetTransformations", line |-> 666, scaleXYZ |-> <<1200, 12000, 1200>>, rotationDegrees |-> <<0, 0, 0>>, positionXYZ |-> <<-77000, 5000, -101100>>],
     [op |-> "SetShaderColor", line |-> 667, color |-> <<5500, 5500, 5500, 10000>>],
     [op |-> "SetShaderMaterial", line |-> 668, tag |-> "metal"],
     [op |-> "Draw", line |-> 669, mesh |-> "DrawCylinderMesh", args |-> "false,false,true"],
     [op |-> "SetTransformations", line |-> 683, scaleXYZ |-> <<12000, 158000, 9000>>, rotationDegrees |-> <<0, 0, 0>>, positionXYZ |-> <<-42000, 42000, -107000>>],
     [op |-> "SetShaderColor", line |-> 684, color |-> <<7800, 7800, 7700, 10000>>],
     [op |-> "SetShaderMaterial", line |-> 685, tag |-> "cabinetWhite"],
     [op |-> "Draw", line |-> 686, mesh |-> "DrawBoxMesh", args |-> ""],
     [op |-> "SetTransformations", line |-> 692, scaleXYZ |-> <<12000, 158000, 9000>>, rotationDegrees |-> <<0, 0, 0>>, positionXYZ |-> <<22000, 42000, -107000>>],
     [op |-> "SetShaderColor", line |-> 693, color |-> <<7800, 7800, 7700, 10000>>],
     [op |-> "SetShaderMaterial", line |-> 694, tag |-> "cabinetWhite"],
     [op |-> "Draw", line |-> 695, mesh |-> "DrawBoxMesh", args |-> ""],
     [op |-> "SetTransformations", line |-> 702, scaleXYZ |-> <<76000, 23000, 8500>>, rotationDegrees |-> <<0, 0, 0>>, positionXYZ |-> <<-10000, 109500, -106500>>],
     [op |-> "SetShaderColor", line |-> 703, color |-> <<7800, 7800, 7700, 10000>>],
     [op |-> "SetShaderMaterial", line |-> 704, tag |-> "cabinetWhite"],
     [op |-> "Draw", line |-> 705, mesh |-> "DrawBoxMesh", args |-> ""],
     [op |-> "SetTransformations", line |-> 710, scaleXYZ |-> <<34960, 18860, 1200>>, rotationDegrees |-> <<0, 0, 0>>, positionXYZ |-> <<-29000, 109500, -101700>>],
     [op |-> "SetShaderColor", line |-> 711, color |-> <<7200, 7200, 7100, 10000>>],
     [op |-> "SetShaderMaterial", line |-> 712, tag |-> "cabinetWhite"],
     [op |-> "Draw", line |-> 713, mesh |-> "DrawBoxMesh", args |-> ""],
     [op |-> "SetTransformations", line |-> 718, scaleXYZ |-> <<34960, 18860, 1200>>, rotationDegrees |-> <<0, 0, 0>>, positionXYZ |-> <<9000, 109500, -101700>>],
     [op |-> "SetShaderColor", line |-> 719, color |-> <<7200, 7200, 7100, 10000>>],
     [op |-> "SetShaderMaterial", line |-> 720, tag |-> "cabinetWhite"],
     [op |-> "Draw", line |-> 721, mesh |-> "DrawBoxMesh", args |-> ""],
     [op |-> "SetTransformations", line |-> 728, scaleXYZ |-> <<1000, 9000, 1000>>, rotationDegrees |-> <<0, 0, 0>>, positionXYZ |-> <<-13000, 104500, -100400>>],
     [op |-> "SetShaderColor", line |-> 729, color |-> <<5500, 5500, 5500, 10000>>],
     [op |-> "SetShaderMaterial", line |-> 730, tag |-> "metal"],
     [op |-> "Draw", line |-> 731, mesh |-> "DrawCylinderMesh", args |-> "false,false,true"],
     [op |-> "SetTransformations", line |-> 728, scaleXYZ |-> <<1000, 9000, 1000>>, rotationDegrees |-> <<0, 0, 0>>, positionXYZ |-> <<-7000, 104500, -100400>>],
     [op |-> "SetShaderColor", line |-> 729, color |-> <<5500, 5500, 5500, 10000>>],
     [op |-> "SetShaderMaterial", line |-> 730, tag |-> "metal"],
     [op |-> "Draw", line |-> 731, mesh |-> "DrawCylinderMesh", args |-> "false,false,true"],
     [op |-> "SetTransformations", line |-> 742, scaleXYZ |-> <<52000, 135000, 12000>>, rotationDegrees |-> <<0, 0, 0>>, positionXYZ |-> <<-10000, 30500, -107000>>],
     [op |-> "SetShaderColor", line |-> 743, color |-> <<4000, 4000, 4100, 10000>>],
     [op |-> "SetShaderMaterial", line |-> 744, tag |-> "stainless"],
     [op |-> "Draw", line |-> 745, mesh |-> "DrawBoxMesh", args |-> ""],
     [op |-> "SetTransformations", line |-> 752, scaleXYZ |-> <<600, 97200, 12200>>, rotationDegrees |-> <<0, 0, 0>>, positionXYZ |-> <<-10000, 46700, -101000>>],
     [op |-> "SetShaderColor", line |-> 753, color |-> <<2200, 2200, 2300, 10000>>],
     [op |-> "SetShaderMaterial", line |-> 754, tag |-> "darkMetal"],
     [op |-> "Draw", line |-> 755, mesh |-> "DrawBoxMesh", args |-> ""],
     [op |-> "SetTransformations", line |-> 760, scaleXYZ |-> <<52500, 800, 12200>>, rotationDegrees |-> <<0, 0, 0>>, positionXYZ |-> <<-10000, -1900, -101000>>],
     [op |-> "SetShaderColor", line |-> 761, color |-> <<2000, 2000, 2100, 10000>>],
     [op |-> "SetShaderMaterial", line |-> 762, tag |-> "darkMetal"],
     [op |-> "Draw", line |-> 763, mesh |-> "DrawBoxMesh", args |-> ""],
     [op |-> "SetTransformations", line |-> 769, scaleXYZ |-> <<1400, 38000, 1400>>, rotationDegrees |-> <<0, 0, 0>>, positionXYZ |-> <<-15500, 46700, -98800>>],
     [op |-> "SetShaderColor", line |-> 770, color |-> <<1400, 1400, 1400, 10000>>],
     [op |-> "SetShaderMaterial", line |-> 771, tag |-> "fridgeHandle"],
     [op |-> "Draw", line |-> 772, mesh |-> "DrawBoxMesh", args |-> ""],
     [op |-> "SetTransformations", line |-> 778, scaleXYZ |-> <<1400, 38000, 1400>>, rotationDegrees |-> <<0, 0, 0>>, positionXYZ |-> <<-4500, 46700, -98800>>],
     [op |-> "SetShaderColor", line |-> 779, color |-> <<1400, 1400, 1400, 10000>>],
     [op |-> "SetShaderMaterial", line |-> 780, tag |-> "fridgeHandle"],
     [op |-> "Draw", line |-> 781, mesh |-> "DrawBoxMesh", args |-> ""],
     [op |-> "SetTransformations", line |-> 787, scaleXYZ |-> <<33800, 1800, 1800>>, rotationDegrees |-> <<0, 0, 0>>, positionXYZ |-> <<-10000, -19450, -98800>>],
     [op |-> "SetShaderColor", line |-> 788, color |-> <<1400, 1400, 1400, 10000>>],
     [op |-> "SetShaderMaterial", line |-> 789, tag |-> "fridgeHandle"],
     [op |-> "Draw", line |-> 790, mesh |-> "DrawBoxMesh", args |-> ""],
     [op |-> "SetTransformations", line |-> 798, scaleXYZ |-> <<2500, 2800, 2500>>, rotationDegrees |-> <<0, 0, 0>>, positionXYZ |-> <<-29760, -38400, -105000>>],
     [op |-> "SetShaderColor", line |-> 799, color |-> <<1000, 1000, 1000, 10000>>],
     [op |-> "SetShaderMaterial", line |-> 800, tag |-> "darkMetal"],
     [op |-> "Draw", line |-> 801, mesh |-> "DrawCylinderMesh", args |-> "true,true,true"],
     [op |-> "SetTransformations", line |-> 798, scaleXYZ |-> <<2500, 2800, 2500>>, rotationDegrees |-> <<0, 0, 0>>, positionXYZ |-> <<9760, -38400, -105000>>],
     [op |-> "SetShaderColor", line |-> 799, color |-> <<1000, 1000, 1000, 10000>>],
     [op |-> "SetShaderMaterial", line |-> 800, tag |-> "darkMetal"],
     [op |-> "Draw", line |-> 801, mesh |-> "DrawCylinderMesh", args |-> "true,true,true"],
     [op |-> "SetTransformations", line |-> 807, scaleXYZ |-> <<80000, 200000, 3000>>, rotationDegrees |-> <<0, 0, 0>>, positionXYZ |-> <<80000, 60000, -110000>>],
     [op |-> "SetShaderTexture", line |-> 808, tag |-> "wall"],
     [op |-> "SetTextureUVScale", line |-> 809, uv |-> <<10000, 10000>>],
     [op |-> "SetShaderMaterial", line |-> 810, tag |-> "wall"],
     [op |-> "Draw", line |-> 811, mesh |-> "DrawBoxMesh", args |-> ""],
     [op |-> "SetTransformations", line |-> 816, scaleXYZ |-> <<5500, 8500, 1200>>, rotationDegrees |-> <<0, 0, 0>>, positionXYZ |-> <<68000, 28000, -107800>>],
     [op |-> "SetShaderColor", line |-> 817, color |-> <<8000, 8000, 7900, 10000>>],
     [op |-> "SetShaderMaterial", line |-> 818, tag |-> "cabinetWhite"],
     [op |-> "Draw", line |-> 819, mesh |-> "DrawBoxMesh", args |-> ""],
     [op |-> "SetTransformations", line |-> 832, scaleXYZ |-> <<200000, 10000, 80000>>, rotationDegrees |-> <<0, 0, 0>>, positionXYZ |-> <<0, 15000, -30000>>],
     [op |-> "SetShaderTexture", line |-> 833, tag |-> "toptable"],
     [op |-> "SetTextureUVScale", line |-> 834, uv |-> <<10000, 10000>>],
     [op |-> "SetShaderMaterial", line |-> 835, tag |-> "tableTop"],
     [op |-> "Draw", line |-> 836, mesh |-> "DrawBoxMesh", args |-> ""],
     [op |-> "SetTransformations", line |-> 841, scaleXYZ |-> <<200000, 15000, 8000>>, rotationDegrees |-> <<0, 0, 0>>, positionXYZ |-> <<0, 2500, 0>>],
     [op |-> "SetShaderColor", line |-> 842, color |-> <<7200, 7200, 7000, 10000>>],
     [op |-> "SetShaderMaterial", line |-> 843, tag |-> "counter"],
     [op |-> "Draw", line |-> 844, mesh |-> "DrawBoxMesh", args |-> ""],
     [op |-> "SetTransformations", line |-> 852, scaleXYZ |-> <<200000, 10000, 60000>>, rotationDegrees |-> <<0, 0, 0>>, positionXYZ |-> <<0, -5000, 30000>>],
     [op |-> "SetShaderColor", line |-> 853, color |-> <<5500, 5300, 5000, 10000>>],
     [op |-> "SetShaderTexture", line |-> 854, tag |-> "bottomtable"],
     [op |-> "SetTextureUVScale", line |-> 855, uv |-> <<10000, 10000>>],
     [op |-> "SetShaderMaterial", line |-> 856, tag |-> "counter"],
     [op |-> "Draw", line |-> 857, mesh |-> "DrawPlaneMesh", args |-> ""],
     [op |-> "SetTransformations", line |-> 876, scaleXYZ |-> <<14720, 10000, 14720>>, rotationDegrees |-> <<0, 0, 0>>, positionXYZ |-> <<0, 20000, -30000>>],
     [op |-> "SetShaderTexture", line |-> 877, tag |-> "pot"],
     [op |-> "SetTextureUVScale", line |-> 878, uv |-> <<10000, 10000>>],
     [op |-> "SetShaderMaterial", line |-> 879, tag |-> "grayMatte"],
     [op |-> "Draw", line |-> 880, mesh |-> "DrawCylinderMesh", args |-> "true,true,true"],
     [op |-> "SetTransformations", line |-> 886, scaleXYZ |-> <<16000, 18000, 16000>>, rotationDegrees |-> <<0, 0, 0>>, positionXYZ |-> <<0, 30000, -30000>>],
     [op |-> "SetShaderTexture", line |-> 887, tag |-> "pot"],
     [op |-> "SetTextureUVScale", line |-> 888, uv |-> <<10000, 10000>>],
     [op |-> "SetShaderMaterial", line |-> 889, tag |-> "grayMatte"],
     [op |-> "Draw", line |-> 890, mesh |-> "DrawCylinderMesh", args |-> "true,true,true"],
     [op |-> "SetTransformations", line |-> 897, scaleXYZ |-> <<14400, 500, 14400>>, rotationDegrees |-> <<0, 0, 0>>, positionXYZ |-> <<0, 48000, -30000>>],
     [op |-> "SetShaderColor", line |-> 898, color |-> <<2500, 1800, 1000, 10000>>],
     [op |-> "SetShaderMaterial", line |-> 899, tag |-> "soil"],
     [op |-> "Draw", line |-> 900, mesh |-> "DrawCylinderMesh", args |-> "true,true,true"],
     [op |-> "SetShaderColor", line |-> 920, color |-> <<2000, 1700, 1400, 10000>>],
     [op |-> "SetShaderMaterial", line |-> 921, tag |-> "bark"],
     [op |-> "SetTransformations", line |-> 926, scaleXYZ |-> <<2200, 4500, 2200>>, rotationDegrees |-> <<0, 0, -200000>>, positionXYZ |-> <<0, 48500, -30000>>],
     [op |-> "Draw", line |-> 927, mesh |-> "DrawCylinderMesh", args |-> "false,false,true"],
     [op |-> "SetTransformations", line |-> 932, scaleXYZ |-> <<2100, 2100, 2100>>, rotationDegrees |-> <<0, 0, 0>>, positionXYZ |-> <<1500, 52700, -30000>>],
     [op |-> "Draw", line |-> 933, mesh |-> "DrawSphereMesh", args |-> ""],
     [op |-> "SetTransformations", line |-> 938, scaleXYZ |-> <<1900, 7500, 1900>>, rotationDegrees |-> <<0, 0, -150000>>, positionXYZ |-> <<1500, 52700, -30000>>],
     [op |-> "Draw", line |-> 939, mesh |-> "DrawCylinderMesh", args |-> "false,false,true"],
     [op |-> "SetTransformations", line |-> 944, scaleXYZ |-> <<1900, 1900, 1900>>, rotationDegrees |-> <<0, 0, 0>>, positionXYZ |-> <<3400, 59900, -30000>>],
     [op |-> "Draw", line |-> 945, mesh |-> "DrawSphereMesh", args |-> ""],
     [op |-> "SetTransformations", line |-> 950, scaleXYZ |-> <<1600, 7500, 1600>>, rotationDegrees |-> <<0, 0, 80000>>, positionXYZ |-> <<3400, 59900, -30000>>],
     [op |-> "Draw", line |-> 951, mesh |-> "DrawCylinderMesh", args |-> "false,false,true"],
     [op |-> "SetTransformations", line |-> 956, scaleXYZ |-> <<1600, 1600, 1600>>, rotationDegrees |-> <<0, 0, 0>>, positionXYZ |-> <<2400, 67300, -30000>>],
     [op |-> "Draw", line |-> 957, mesh |-> "DrawSphereMesh", args |-> ""],
     [op |-> "SetTransformations", line |-> 962, scaleXYZ |-> <<1200, 7500, 1200>>, rotationDegrees |-> <<0, 0, 220000>>, positionXYZ |-> <<2400, 67300, -30000>>],
     [op |-> "Draw", line |-> 963, mesh |-> "DrawCylinderMesh", args |-> "false,false,true"],
     [op |-> "SetTransformations", line |-> 969, scaleXYZ |-> <<1100, 14000, 1100>>, rotationDegrees |-> <<0, 0, 550000>>, positionXYZ |-> <<1500, 52700, -30000>>],
     [op |-> "Draw", line |-> 970, mesh |-> "DrawCylinderMesh", args |-> "false,false,true"],
     [op |-> "SetTransformations", line |-> 975, scaleXYZ |-> <<700, 6500, 700>>, rotationDegrees |-> <<0, 0, 420000>>, positionXYZ |-> <<-5400, 57500, -30000>>],
     [op |-> "Draw", line |-> 976, mesh |-> "DrawCylinderMesh", args |-> "false,false,true"],
     [op |-> "SetTransformations", line |-> 982, scaleXYZ |-> <<1000, 12000, 1000>>, rotationDegrees |-> <<0, 0, -500000>>, positionXYZ |-> <<3400, 59900, -30000>>],
     [op |-> "Draw", line |-> 983, mesh |-> "DrawCylinderMesh", args |-> "false,false,true"],
     [op |-> "SetTransformations", line |-> 988, scaleXYZ |-> <<600, 6000, 600>>, rotationDegrees |-> <<0, 0, -350000>>, positionXYZ |-> <<8900, 64500, -30000>>],
     [op |-> "Draw", line |-> 989, mesh |-> "DrawCylinderMesh", args |-> "false,false,true"],
     [op |-> "SetShaderMaterial", line |-> 998, tag |-> "foliage"],
     [op |-> "SetTransformations", line |-> 1013, scaleXYZ |-> <<6500, 5500, 6200>>, rotationDegrees |-> <<0, 0, 0>>, positionXYZ |-> <<-400, 79200, -30000>>],
     [op |-> "SetShaderColor", line |-> 1014, color |-> <<1400, 4000, 1100, 10000>>],
     [op |-> "Draw", line |-> 1015, mesh |-> "DrawSphereMesh", args |-> ""],
     [op |-> "SetTransformations", line |-> 1020, scaleXYZ |-> <<4800, 4200, 4600>>, rotationDegrees |-> <<0, 0, 0>>, positionXYZ |-> <<-1200, 84400, -30000>>],
     [op |-> "SetShaderColor", line |-> 1021, color |-> <<1900, 5000, 1500, 10000>>],
     [op |-> "Draw", line |-> 1022, mesh |-> "DrawSphereMesh", args |-> ""],
     [op |-> "SetTransformations", line |-> 1027, scaleXYZ |-> <<5200, 4400, 4800>>, rotationDegrees |-> <<0, 0, 0>>, positionXYZ |-> <<5400, 80400, -30000>>],
     [op |-> "SetShaderColor", line |-> 1028, color |-> <<1900, 5200, 1500, 10000>>],
     [op |-> "Draw", line |-> 1029, mesh |-> "DrawSphereMesh", args |-> ""],
     [op |-> "SetTransformations", line |-> 1034, scaleXYZ |-> <<5000, 4200, 4600>>, rotationDegrees |-> <<0, 0, 0>>, positionXYZ |-> <<-5900, 80000, -30000>>],
     [op |-> "SetShaderColor", line |-> 1035, color |-> <<1400, 4200, 1100, 10000>>],
     [op |-> "Draw", line |-> 1036, mesh |-> "DrawSphereMesh", args |-> ""],
     [op |-> "SetTransformations", line |-> 1041, scaleXYZ |-> <<4600, 4000, 4400>>, rotationDegrees |-> <<0, 0, 0>>, positionXYZ |-> <<600, 78600, -25000>>],
     [op |-> "SetShaderColor", line |-> 1042, color |-> <<2000, 5300, 1500, 10000>>],
     [op |-> "Draw", line |-> 1043, mesh |-> "DrawSphereMesh", args |-> ""],
     [op |-> "SetTransformations", line |-> 1048, scaleXYZ |-> <<4400, 3800, 4200>>, rotationDegrees |-> <<0, 0, 0>>, positionXYZ |-> <<100, 79600, -34800>>],
     [op |-> "SetShaderColor", line |-> 1049, color |-> <<900, 2800, 800, 10000>>],
     [op |-> "Draw", line |-> 1050, mesh |-> "DrawSphereMesh", args |-> ""],
     [op |-> "SetTransformations", line |-> 1055, scaleXYZ |-> <<5500, 3800, 5200>>, rotationDegrees |-> <<0, 0, 0>>, positionXYZ |-> <<200, 75000, -30000>>],
     [op |-> "SetShaderColor", line |-> 1056, color |-> <<900, 3000, 800, 10000>>],
     [op |-> "Draw", line |-> 1057, mesh |-> "DrawSphereMesh", args |-> ""],
     [op |-> "SetTransformations", line |-> 1062, scaleXYZ |-> <<3800, 3300, 3600>>, rotationDegrees |-> <<0, 0, 0>>, positionXYZ |-> <<4000, 84000, -28400>>],
     [op |-> "SetShaderColor", line |-> 1063, color |-> <<2100, 5400, 1600, 10000>>],
     [op |-> "Draw", line |-> 1064, mesh |-> "DrawSphereMesh", args |-> ""],
     [op |-> "SetTransformations", line |-> 1077, scaleXYZ |-> <<4000, 3400, 3800>>, rotationDegrees |-> <<0, 0, 0>>, positionXYZ |-> <<-10000, 60700, -30000>>],
     [op |-> "SetShaderColor", line |-> 1078, color |-> <<1400, 4000, 1100, 10000>>],
     [op |-> "Draw", line |-> 1079, mesh |-> "DrawSphereMesh", args |-> ""],
     [op |-> "SetTransformations", line |-> 1084, scaleXYZ |-> <<3000, 2600, 2800>>, rotationDegrees |-> <<0, 0, 0>>, positionXYZ |-> <<-10500, 64300, -30000>>],
     [op |-> "SetShaderColor", line |-> 1085, color |-> <<2000, 5300, 1500, 10000>>],
     [op |-> "Draw", line |-> 1086, mesh |-> "DrawSphereMesh", args |-> ""],
     [op |-> "SetTransformations", line |-> 1091, scaleXYZ |-> <<2800, 2400, 2600>>, rotationDegrees |-> <<0, 0, 0>>, positionXYZ |-> <<-14000, 61200, -30000>>],
     [op |-> "SetShaderColor", line |-> 1092, color |-> <<1900, 5200, 1500, 10000>>],
     [op |-> "Draw", line |-> 1093, mesh |-> "DrawSphereMesh", args |-> ""],
     [op |-> "SetTransformations", line |-> 1098, scaleXYZ |-> <<2600, 2200, 2400>>, rotationDegrees |-> <<0, 0, 0>>, positionXYZ |-> <<-6400, 61500, -30000>>],
     [op |-> "SetShaderColor", line |-> 1099, color |-> <<900, 3000, 800, 10000>>],
     [op |-> "Draw", line |-> 1100, mesh |-> "DrawSphereMesh", args |-> ""],
     [op |-> "SetTransformations", line |-> 1105, scaleXYZ |-> <<3000, 2500, 2800>>, rotationDegrees |-> <<0, 0, 0>>, positionXYZ |-> <<-10800, 60900, -26400>>],
     [op |-> "SetShaderColor", line |-> 1106, color |-> <<1900, 5100, 1500, 10000>>],
     [op |-> "Draw", line |-> 1107, mesh |-> "DrawSphereMesh", args |-> ""],
     [op |-> "SetTransformations", line |-> 1112, scaleXYZ |-> <<3400, 2400, 3200>>, rotationDegrees |-> <<0, 0, 0>>, positionXYZ |-> <<-10400, 57900, -30000>>],
     [op |-> "SetShaderColor", line |-> 1113, color |-> <<900, 2800, 800, 10000>>],
     [op |-> "Draw", line |-> 1114, mesh |-> "DrawSphereMesh", args |-> ""],
     [op |-> "SetTransformations", line |-> 1119, scaleXYZ |-> <<2400, 2000, 2200>>, rotationDegrees |-> <<0, 0, 0>>, positionXYZ |-> <<-9600, 62500, -30000>>],
     [op |-> "SetShaderColor", line |-> 1120, color |-> <<2000, 5400, 1600, 10000>>],
     [op |-> "Draw", line |-> 1121, mesh |-> "DrawSphereMesh", args |-> ""],
     [op |-> "SetTransformations", line |-> 1134, scaleXYZ |-> <<4000, 3400, 3800>>, rotationDegrees |-> <<0, 0, 0>>, positionXYZ |-> <<12600, 67600, -30000>>],
     [op |-> "SetShaderColor", line |-> 1135, color |-> <<1400, 4000, 1100, 10000>>],
     [op |-> "Draw", line |-> 1136, mesh |-> "DrawSphereMesh", args |-> ""],
     [op |-> "SetTransformations", line |-> 1141, scaleXYZ |-> <<3000, 2600, 2800>>, rotationDegrees |-> <<0, 0, 0>>, positionXYZ |-> <<13000, 71200, -30000>>],
     [op |-> "SetShaderColor", line |-> 1142, color |-> <<2000, 5300, 1500, 10000>>],
     [op |-> "Draw", line |-> 1143, mesh |-> "DrawSphereMesh", args |-> ""],
     [op |-> "SetTransformations", line |-> 1148, scaleXYZ |-> <<2800, 2400, 2600>>, rotationDegrees |-> <<0, 0, 0>>, positionXYZ |-> <<16600, 68100, -30000>>],
     [op |-> "SetShaderColor", line |-> 1149, color |-> <<1900, 5200, 1500, 10000>>],
     [op |-> "Draw", line |-> 1150, mesh |-> "DrawSphereMesh", args |-> ""],
     [op |-> "SetTransformations", line |-> 1155, scaleXYZ |-> <<2600, 2200, 2400>>, rotationDegrees |-> <<0, 0, 0>>, positionXYZ |-> <<9000, 68400, -30000>>],
     [op |-> "SetShaderColor", line |-> 1156, color |-> <<900, 3000, 800, 10000>>],
     [op |-> "Draw", line |-> 1157, mesh |-> "DrawSphereMesh", args |-> ""],
     [op |-> "SetTransformations", line |-> 1162, scaleXYZ |-> <<3000, 2500, 2800>>, rotationDegrees |-> <<0, 0, 0>>, positionXYZ |-> <<13200, 67800, -26400>>],
     [op |-> "SetShaderColor", line |-> 1163, color |-> <<1900, 5100, 1500, 10000>>],
     [op |-> "Draw", line |-> 1164, mesh |-> "DrawSphereMesh", args |-> ""],
     [op |-> "SetTransformations", line |-> 1169, scaleXYZ |-> <<3400, 2400, 3200>>, rotationDegrees |-> <<0, 0, 0>>, positionXYZ |-> <<13000, 64800, -30000>>],
     [op |-> "SetShaderColor", line |-> 1170, color |-> <<900, 2800, 800, 10000>>],
     [op |-> "Draw", line |-> 1171, mesh |-> "DrawSphereMesh", args |-> ""],
     [op |-> "SetTransformations", line |-> 1176, scaleXYZ |-> <<2400, 2000, 2200>>, rotationDegrees |-> <<0, 0, 0>>, positionXYZ |-> <<12200, 69400, -30000>>],
     [op |-> "SetShaderColor", line |-> 1177, color |-> <<2000, 5400, 1600, 10000>>],
     [op |-> "Draw", line |-> 1178, mesh |-> "DrawSphereMesh", args |-> ""],
     [op |-> "SetTransformations", line |-> 1197, scaleXYZ |-> <<6500, 12750, 6500>>, rotationDegrees |-> <<0, 0, 0>>, positionXYZ |-> <<-40000, -5000, 40000>>],
     [op |-> "SetShaderColor", line |-> 1198, color |-> <<9500, 9300, 9000, 10000>>],
     [op |-> "SetShaderMaterial", line |-> 1199, tag |-> "ceramic"],
     [op |-> "Draw", line |-> 1200, mesh |-> "DrawCylinderMesh", args |-> "true,true,true"],
     [op |-> "SetTransformations", line |-> 1205, scaleXYZ |-> <<5720, 550, 5720>>, rotationDegrees |-> <<0, 0, 0>>, positionXYZ |-> <<-40000, 7250, 40000>>],
     [op |-> "SetShaderColor", line |-> 1206, color |-> <<8800, 8400, 7200, 10000>>],
     [op |-> "SetShaderMaterial", line |-> 1207, tag |-> "ceramic"],
     [op |-> "Draw", line |-> 1208, mesh |-> "DrawCylinderMesh", args |-> "true,true,true"],
     [op |-> "SetTransformations", line |-> 1218, scaleXYZ |-> <<4200, 3000, 4200>>, rotationDegrees |-> <<900000, 0, 0>>, positionXYZ |-> <<-46500, 1375, 40000>>],
     [op |-> "SetShaderColor", line |-> 1219, color |-> <<9500, 9300, 9000, 10000>>],
     [op |-> "SetShaderMaterial", line |-> 1220, tag |-> "ceramic"],
     [op |-> "Draw", line |-> 1221, mesh |-> "DrawTorusMesh", args |-> ""],
     [op |-> "SetTransformations", line |-> 1226, scaleXYZ |-> <<6600, 3188, 6600>>, rotationDegrees |-> <<0, 0, 0>>, positionXYZ |-> <<-40000, -3088, 40000>>],
     [op |-> "SetShaderColor", line |-> 1227, color |-> <<8800, 8600, 8200, 10000>>],
     [op |-> "SetShaderMaterial", line |-> 1228, tag |-> "ceramic"],
     [op |-> "Draw", line |-> 1229, mesh |-> "DrawCylinderMesh", args |-> "false,false,true"],
     [op |-> "SetTransformations", line |-> 1264, scaleXYZ |-> <<450, 16800, 450>>, rotationDegrees |-> <<0, 0, 0>>, positionXYZ |-> <<-18000, -5000, 56300>>],
     [op |-> "SetShaderColor", line |-> 1265, color |-> <<800, 800, 800, 10000>>],
     [op |-> "SetShaderMaterial", line |-> 1266, tag |-> "darkMetal"],
     [op |-> "Draw", line |-> 1267, mesh |-> "DrawCylinderMesh", args |-> "false,false,true"],
     [op |-> "SetTransformations", line |-> 1271, scaleXYZ |-> <<450, 11300, 450>>, rotationDegrees |-> <<-900000, 0, 0>>, positionXYZ |-> <<-18000, -4550, 56300>>],
     [op |-> "Draw", line |-> 1272, mesh |-> "DrawCylinderMesh", args |-> "false,false,true"],
     [op |-> "SetTransformations", line |-> 1276, scaleXYZ |-> <<450, 16800, 450>>, rotationDegrees |-> <<0, 0, 0>>, positionXYZ |-> <<-12000, -5000, 56300>>],
     [op |-> "Draw", line |-> 1277, mesh |-> "DrawCylinderMesh", args |-> "false,false,true"],
     [op |-> "SetTransformations", line |-> 1281, scaleXYZ |-> <<450, 11300, 450>>, rotationDegrees |-> <<-900000, 0, 0>>, positionXYZ |-> <<-12000, -4550, 56300>>],
     [op |-> "Draw", line |-> 1282, mesh |-> "DrawCylinderMesh", args |-> "false,false,true"],
     [op |-> "SetTransformations", line |-> 1286, scaleXYZ |-> <<3450, 675, 450>>, rotationDegrees |-> <<0, 0, 0>>, positionXYZ |-> <<-15000, 11800, 56300>>],
     [op |-> "Draw", line |-> 1287, mesh |-> "DrawSphereMesh", args |-> ""],
     [op |-> "SetTransformations", line |-> 1292, scaleXYZ |-> <<450, 16800, 450>>, rotationDegrees |-> <<0, 0, 0>>, positionXYZ |-> <<-18000, -5000, 33700>>],
     [op |-> "SetShaderColor", line |-> 1293, color |-> <<800, 800, 800, 10000>>],
     [op |-> "SetShaderMaterial", line |-> 1294, tag |-> "darkMetal"],
     [op |-> "Draw", line |-> 1295, mesh |-> "DrawCylinderMesh", args |-> "false,false,true"],
     [op |-> "SetTransformations", line |-> 1299, scaleXYZ |-> <<450, 11300, 450>>, rotationDegrees |-> <<900000, 0, 0>>, positionXYZ |-> <<-18000, -4550, 33700>>],
     [op |-> "Draw", line |-> 1300, mesh |-> "DrawCylinderMesh", args |-> "false,false,true"],
     [op |-> "SetTransformations", line |-> 1304, scaleXYZ |-> <<450, 16800, 450>>, rotationDegrees |-> <<0, 0, 0>>, positionXYZ |-> <<-12000, -5000, 33700>>],
     [op |-> "Draw", line |-> 1305, mesh |-> "DrawCylinderMesh", args |-> "false,false,true"],
     [op |-> "SetTransformations", line |-> 1309, scaleXYZ |-> <<450, 11300, 450>>, rotationDegrees |-> <<900000, 0, 0>>, positionXYZ |-> <<-12000, -4550, 33700>>],
     [op |-> "Draw", line |-> 1310, mesh |-> "DrawCylinderMesh", args |-> "false,false,true"],
     [op |-> "SetTransformations", line |-> 1313, scaleXYZ |-> <<3450, 675, 450>>, rotationDegrees |-> <<0, 0, 0>>, positionXYZ |-> <<-15000, 11800, 33700>>],
     [op |-> "Draw", line |-> 1314, mesh |-> "DrawSphereMesh", args |-> ""],
     [op |-> "SetTransformations", line |-> 1319, scaleXYZ |-> <<450, 16800, 450>>, rotationDegrees |-> <<0, 0, 0>>, positionXYZ |-> <<-26300, -5000, 42000>>],
     [op |-> "SetShaderColor", line |-> 1320, color |-> <<800, 800, 800, 10000>>],
     [op |-> "SetShaderMaterial", line |-> 1321, tag |-> "darkMetal"],
     [op |-> "Draw", line |-> 1322, mesh |-> "DrawCylinderMesh", args |-> "false,false,true"],
     [op |-> "SetTransformations", line |-> 1326, scaleXYZ |-> <<450, 11300, 450>>, rotationDegrees |-> <<0, 0, -900000>>, positionXYZ |-> <<-26300, -4550, 42000>>],
     [op |-> "Draw", line |-> 1327, mesh |-> "DrawCylinderMesh", args |-> "false,false,true"],
     [op |-> "SetTransformations", line |-> 1331, scaleXYZ |-> <<450, 16800, 450>>, rotationDegrees |-> <<0, 0, 0>>, positionXYZ |-> <<-26300, -5000, 48000>>],
     [op |-> "Draw", line |-> 1332, mesh |-> "DrawCylinderMesh", args |-> "false,false,true"],
     [op |-> "SetTransformations", line |-> 1336, scaleXYZ |-> <<450, 11300, 450>>, rotationDegrees |-> <<0, 0, -900000>>, positionXYZ |-> <<-26300, -4550, 48000>>],
     [op |-> "Draw", line |-> 1337, mesh |-> "DrawCylinderMesh", args |-> "false,false,true"],
     [op |-> "SetTransformations", line |-> 1340, scaleXYZ |-> <<450, 675, 3450>>, rotationDegrees |-> <<0, 0, 0>>, positionXYZ |-> <<-26300, 11800, 45000>>],
     [op |-> "Draw", line |-> 1341, mesh |-> "DrawSphereMesh", args |-> ""],
     [op |-> "SetTransformations", line |-> 1346, scaleXYZ |-> <<450, 16800, 450>>, rotationDegrees |-> <<0, 0, 0>>, positionXYZ |-> <<-3700, -5000, 42000>>],
     [op |-> "SetShaderColor", line |-> 1347, color |-> <<800, 800, 800, 10000>>],
     [op |-> "SetShaderMaterial", line |-> 1348, tag |-> "darkMetal"],
     [op |-> "Draw", line |-> 1349, mesh |-> "DrawCylinderMesh", args |-> "false,false,true"],
     [op |-> "SetTransformations", line |-> 1353, scaleXYZ |-> <<450, 11300, 450>>, rotationDegrees |-> <<0, 0, 900000>>, positionXYZ |-> <<-3700, -4550, 42000>>],
     [op |-> "Draw", line |-> 1354, mesh |-> "DrawCylinderMesh", args |-> "false,false,true"],
     [op |-> "SetTransformations", line |-> 1358, scaleXYZ |-> <<450, 16800, 450>>, rotationDegrees |-> <<0, 0, 0>>, positionXYZ |-> <<-3700, -5000, 48000>>],
     [op |-> "Draw", line |-> 1359, mesh |-> "DrawCylinderMesh", args |-> "false,false,true"],
     [op |-> "SetTransformations", line |-> 1363, scaleXYZ |-> <<450, 11300, 450>>, rotationDegrees |-> <<0, 0, 900000>>, positionXYZ |-> <<-3700, -4550, 48000>>],
     [op |-> "Draw", line |-> 1364, mesh |-> "DrawCylinderMesh", args |-> "false,false,true"],
     [op |-> "SetTransformations", line |-> 1367, scaleXYZ |-> <<450, 675, 3450>>, rotationDegrees |-> <<0, 0, 0>>, positionXYZ |-> <<-3700, 11800, 45000>>],
     [op |-> "Draw", line |-> 1368, mesh |-> "DrawSphereMesh", args |-> ""],
     [op |-> "SetTransformations", line |-> 1377, scaleXYZ |-> <<11000, 1500, 11000>>, rotationDegrees |-> <<0, 0, 0>>, positionXYZ |-> <<-15000, -4000, 45000>>],
     [op |-> "SetShaderColor", line |-> 1380, color |-> <<9000, 8900, 8600, 10000>>],
     [op |-> "SetShaderTexture", line |-> 1381, tag |-> "coaster"],
     [op |-> "SetTextureUVScale", line |-> 1382, uv |-> <<10000, 10000>>],
     [op |-> "SetShaderMaterial", line |-> 1383, tag |-> "lightWood"],
     [op |-> "Draw", line |-> 1384, mesh |-> "DrawCylinderMesh", args |-> "true,true,true"],
     [op |-> "SetTransformations", line |-> 1377, scaleXYZ |-> <<11000, 1500, 11000>>, rotationDegrees |-> <<0, 0, 0>>, positionXYZ |-> <<-15000, -1900, 45000>>],
     [op |-> "SetShaderColor", line |-> 1380, color |-> <<8700, 8600, 8300, 10000>>],
     [op |-> "SetShaderTexture", line |-> 1381, tag |-> "coaster"],
     [op |-> "SetTextureUVScale", line |-> 1382, uv |-> <<10000, 10000>>],
     [op |-> "SetShaderMaterial", line |-> 1383, tag |-> "lightWood"],
     [op |-> "Draw", line |-> 1384, mesh |-> "DrawCylinderMesh", args |-> "true,true,true"],
     [op |-> "SetTransformations", line |-> 1377, scaleXYZ |-> <<11000, 1500, 11000>>, rotationDegrees |-> <<0, 0, 0>>, positionXYZ |-> <<-15000, 200, 45000>>],
     [op |-> "SetShaderColor", line |-> 1380, color |-> <<9000, 8900, 8600, 10000>>],
     [op |-> "SetShaderTexture", line |-> 1381, tag |-> "coaster"],
     [op |-> "SetTextureUVScale", line |-> 1382, uv |-> <<10000, 10000>>],
     [op |-> "SetShaderMaterial", line |-> 1383, tag |-> "lightWood"],
     [op |-> "Draw", line |-> 1384, mesh |-> "DrawCylinderMesh", args |-> "true,true,true"],
     [op |-> "SetTransformations", line |-> 1377, scaleXYZ |-> <<11000, 1500, 11000>>, rotationDegrees |-> <<0, 0, 0>>, positionXYZ |-> <<-15000, 2300, 45000>>],
     [op |-> "SetShaderColor", line |-> 1380, color |-> <<8700, 8600, 8300, 10000>>],
     [op |-> "SetShaderTexture", line |-> 1381, tag |-> "coaster"],
     [op |-> "SetTextureUVScale", line |-> 1382, uv |-> <<10000, 10000>>],
     [op |-> "SetShaderMaterial", line |-> 1383, tag |-> "lightWood"],
     [op |-> "Draw", line |-> 1384, mesh |-> "DrawCylinderMesh", args |-> "true,true,true"],
     [op |-> "SetTransformations", line |-> 1377, scaleXYZ |-> <<11000, 1500, 11000>>, rotationDegrees |-> <<0, 0, 0>>, positionXYZ |-> <<-15000, 4400, 45000>>],
     [op |-> "SetShaderColor", line |-> 1380, color |-> <<9000, 8900, 8600, 10000>>],
     [op |-> "SetShaderTexture", line |-> 1381, tag |-> "coaster"],
     [op |-> "SetTextureUVScale", line |-> 1382, uv |-> <<10000, 10000>>],
     [op |-> "SetShaderMaterial", line |-> 1383, tag |-> "lightWood"],
     [op |-> "Draw", line |-> 1384, mesh |-> "DrawCylinderMesh", args |-> "true,true,true"],
     [op |-> "SetTransformations", line |-> 1377, scaleXYZ |-> <<11000, 1500, 11000>>, rotationDegrees |-> <<0, 0, 0>>, positionXYZ |-> <<-15000, 6500, 45000>>],
     [op |-> "SetShaderColor", line |-> 1380, color |-> <<8700, 8600, 8300, 10000>>],
     [op |-> "SetShaderTexture", line |-> 1381, tag |-> "coaster"],
     [op |-> "SetTextureUVScale", line |-> 1382, uv |-> <<10000, 10000>>],
     [op |-> "SetShaderMaterial", line |-> 1383, tag |-> "lightWood"],
     [op |-> "Draw", line |-> 1384, mesh |-> "DrawCylinderMesh", args |-> "true,true,true"],
     [op |-> "SetTransformations", line |-> 1377, scaleXYZ |-> <<11000, 1500, 11000>>, rotationDegrees |-> <<0, 0, 0>>, positionXYZ |-> <<-15000, 8600, 45000>>],
     [op |-> "SetShaderColor", line |-> 1380, color |-> <<9000, 8900, 8600, 10000>>],
     [op |-> "SetShaderTexture", line |-> 1381, tag |-> "coaster"],
     [op |-> "SetTextureUVScale", line |-> 1382, uv |-> <<10000, 10000>>],
     [op |-> "SetShaderMaterial", line |-> 1383, tag |-> "lightWood"],
     [op |-> "Draw", line |-> 1384, mesh |-> "DrawCylinderMesh", args |-> "true,true,true"],
     [op |-> "SetTransformations", line |-> 1377, scaleXYZ |-> <<11000, 1500, 11000>>, rotationDegrees |-> <<0, 0, 0>>, positionXYZ |-> <<-15000, 10700, 45000>>],
     [op |-> "SetShaderColor", line |-> 1380, color |-> <<8700, 8600, 8300, 10000>>],
     [op |-> "SetShaderTexture", line |-> 1381, tag |-> "coaster"],
     [op |-> "SetTextureUVScale", line |-> 1382, uv |-> <<10000, 10000>>],
     [op |-> "SetShaderMaterial", line |-> 1383, tag |-> "lightWood"],
     [op |-> "Draw", line |-> 1384, mesh |-> "DrawCylinderMesh", args |-> "true,true,true"],
     [op |-> "SetTransformations", line |-> 1415, scaleXYZ |-> <<34000, 20000, 2000>>, rotationDegrees |-> <<0, 0, 0>>, positionXYZ |-> <<20000, 5000, 49750>>],
     [op |-> "SetShaderColor", line |-> 1416, color |-> <<5500, 3500, 1500, 10000>>],
     [op |-> "SetShaderTexture", line |-> 1417, tag |-> "wood"],
     [op |-> "SetTextureUVScale", line |-> 1418, uv |-> <<10000, 10000>>],
     [op |-> "SetShaderMaterial", line |-> 1419, tag |-> "wood"],
     [op |-> "Draw", line |-> 1420, mesh |-> "DrawBoxMesh", args |-> ""],
     [op |-> "SetTransformations", line |-> 1426, scaleXYZ |-> <<17000, 2000, 17000>>, rotationDegrees |-> <<-900000, 0, 0>>, positionXYZ |-> <<20000, 15000, 50750>>],
     [op |-> "SetShaderColor", line |-> 1427, color |-> <<5500, 3500, 1500, 10000>>],
     [op |-> "SetShaderTexture", line |-> 1428, tag |-> "woodie"],
     [op |-> "SetTextureUVScale", line |-> 1429, uv |-> <<10000, 10000>>],
     [op |-> "SetShaderMaterial", line |-> 1430, tag |-> "woodie"],
     [op |-> "Draw", line |-> 1431, mesh |-> "DrawCylinderMesh", args |-> "true,true,true"],
     [op |-> "SetTransformations", line |-> 1439, scaleXYZ |-> <<34000, 20000, 2000>>, rotationDegrees |-> <<0, 0, 0>>, positionXYZ |-> <<20000, 5000, 40250>>],
     [op |-> "SetShaderColor", line |-> 1440, color |-> <<5500, 3500, 1500, 10000>>],
     [op |-> "SetShaderTexture", line |-> 1441, tag |-> "wood"],
     [op |-> "SetTextureUVScale", line |-> 1442, uv |-> <<10000, 10000>>],
     [op |-> "SetShaderMaterial", line |-> 1443, tag |-> "wood"],
     [op |-> "Draw", line |-> 1444, mesh |-> "DrawBoxMesh", args |-> ""],
     [op |-> "SetTransformations", line |-> 1449, scaleXYZ |-> <<17000, 2000, 17000>>, rotationDegrees |-> <<900000, 0, 0>>, positionXYZ |-> <<20000, 15000, 39250>>],
     [op |-> "SetShaderColor", line |-> 1450, color |-> <<5500, 3500, 1500, 10000>>],
     [op |-> "SetShaderTexture", line |-> 1451, tag |-> "wood"],
     [op |-> "SetTextureUVScale", line |-> 1452, uv |-> <<10000, 10000>>],
     [op |-> "SetShaderMaterial", line |-> 1453, tag |-> "wood"],
     [op |-> "Draw", line |-> 1454, mesh |-> "DrawCylinderMesh", args |-> "true,true,true"],
     [op |-> "SetTransformations", line |-> 1460, scaleXYZ |-> <<34000, 2000, 11500>>, rotationDegrees |-> <<0, 0, 0>>, positionXYZ |-> <<20000, -4000, 45000>>],
     [op |-> "SetShaderColor", line |-> 1461, color |-> <<5200, 3200, 1300, 10000>>],
     [op |-> "SetShaderMaterial", line |-> 1462, tag |-> "wood"],
     [op |-> "Draw", line |-> 1463, mesh |-> "DrawBoxMesh", args |-> ""],
     [op |-> "SetTransformations", line |-> 1482, scaleXYZ |-> <<39780, 37000, 506>>, rotationDegrees |-> <<0, 0, 0>>, positionXYZ |-> <<20000, 15500, 41975>>],
     [op |-> "SetShaderColor", line |-> 1483, color |-> <<9400, 9400, 9212, 10000>>],
     [op |-> "SetShaderTexture", line |-> 1484, tag |-> "napkin"],
     [op |-> "SetTextureUVScale", line |-> 1485, uv |-> <<10000, 10000>>],
     [op |-> "SetShaderMaterial", line |-> 1486, tag |-> "napkin"],
     [op |-> "Draw", line |-> 1487, mesh |-> "DrawBoxMesh", args |-> ""],
     [op |-> "SetTransformations", line |-> 1482, scaleXYZ |-> <<39780, 35890, 506>>, rotationDegrees |-> <<0, 0, 0>>, positionXYZ |-> <<20000, 14945, 42525>>],
     [op |-> "SetShaderColor", line |-> 1483, color |-> <<9500, 9500, 9310, 10000>>],
     [op |-> "SetShaderTexture", line |-> 1484, tag |-> "napkin"],
     [op |-> "SetTextureUVScale", line |-> 1485, uv |-> <<10000, 10000>>],
     [op |-> "SetShaderMaterial", line |-> 1486, tag |-> "napkin"],
     [op |-> "Draw", line |-> 1487, mesh |-> "DrawBoxMesh", args |-> ""],
     [op |-> "SetTransformations", line |-> 1482, scaleXYZ |-> <<39780, 37000, 506>>, rotationDegrees |-> <<0, 0, 0>>, positionXYZ |-> <<20000, 15500, 43075>>],
     [op |-> "SetShaderColor", line |-> 1483, color |-> <<9600, 9600, 9408, 10000>>],
     [op |-> "SetShaderTexture", line |-> 1484, tag |-> "napkin"],
     [op |-> "SetTextureUVScale", line |-> 1485, uv |-> <<10000, 10000>>],
     [op |-> "SetShaderMaterial", line |-> 1486, tag |-> "napkin"],
     [op |-> "Draw", line |-> 1487, mesh |-> "DrawBoxMesh", args |-> ""],
     [op |-> "SetTransformations", line |-> 1482, scaleXYZ |-> <<39780, 35890, 506>>, rotationDegrees |-> <<0, 0, 0>>, positionXYZ |-> <<20000, 14945, 43625>>],
     [op |-> "SetShaderColor", line |-> 1483, color |-> <<9400, 9400, 9212, 10000>>],
     [op |-> "SetShaderTexture", line |-> 1484, tag |-> "napkin"],
     [op |-> "SetTextureUVScale", line |-> 1485, uv |-> <<10000, 10000>>],
     [op |-> "SetShaderMaterial", line |-> 1486, tag |-> "napkin"],
     [op |-> "Draw", line |-> 1487, mesh |-> "DrawBoxMesh", args |-> ""],
     [op |-> "SetTransformations", line |-> 1482, scaleXYZ |-> <<39780, 37000, 506>>, rotationDegrees |-> <<0, 0, 0>>, positionXYZ |-> <<20000, 15500, 44175>>],
     [op |-> "SetShaderColor", line |-> 1483, color |-> <<9500, 9500, 9310, 10000>>],
     [op |-> "SetShaderTexture", line |-> 1484, tag |-> "napkin"],
     [op |-> "SetTextureUVScale", line |-> 1485, uv |-> <<10000, 10000>>],
     [op |-> "SetShaderMaterial", line |-> 1486, tag |-> "napkin"],
     [op |-> "Draw", line |-> 1487, mesh |-> "DrawBoxMesh", args |-> ""],
     [op |-> "SetTransformations", line |-> 1482, scaleXYZ |-> <<39780, 35890, 506>>, rotationDegrees |-> <<0, 0, 0>>, positionXYZ |-> <<20000, 14945, 44725>>],
     [op |-> "SetShaderColor", line |-> 1483, color |-> <<9600, 9600, 9408, 10000>>],
     [op |-> "SetShaderTexture", line |-> 1484, tag |-> "napkin"],
     [op |-> "SetTextureUVScale", line |-> 1485, uv |-> <<10000, 10000>>],
     [op |-> "SetShaderMaterial", line |-> 1486, tag |-> "napkin"],
     [op |-> "Draw", line |-> 1487, mesh |-> "DrawBoxMesh", args |-> ""],
     [op |-> "SetTransformations", line |-> 1482, scaleXYZ |-> <<39780, 37000, 506>>, rotationDegrees |-> <<0, 0, 0>>, positionXYZ |-> <<20000, 15500, 45275>>],
     [op |-> "SetShaderColor", line |-> 1483, color |-> <<9400, 9400, 9212, 10000>>],
     [op |-> "SetShaderTexture", line |-> 1484, tag |-> "napkin"],
     [op |-> "SetTextureUVScale", line |-> 1485, uv |-> <<10000, 10000>>],
     [op |-> "SetShaderMaterial", line |-> 1486, tag |-> "napkin"],
     [op |-> "Draw", line |-> 1487, mesh |-> "DrawBoxMesh", args |-> ""],
     [op |-> "SetTransformations", line |-> 1482, scaleXYZ |-> <<39780, 35890, 506>>, rotationDegrees |-> <<0, 0, 0>>, positionXYZ |-> <<20000, 14945, 45825>>],
     [op |-> "SetShaderColor", line |-> 1483, color |-> <<9500, 9500, 9310, 10000>>],
     [op |-> "SetShaderTexture", line |-> 1484, tag |-> "napkin"],
     [op |-> "SetTextureUVScale", line |-> 1485, uv |-> <<10000, 10000>>],
     [op |-> "SetShaderMaterial", line |-> 1486, tag |-> "napkin"],
     [op |-> "Draw", line |-> 1487, mesh |-> "DrawBoxMesh", args |-> ""],
     [op |-> "SetTransformations", line |-> 1482, scaleXYZ |-> <<39780, 37000, 506>>, rotationDegrees |-> <<0, 0, 0>>, positionXYZ |-> <<20000, 15500, 46375>>],
     [op |-> "SetShaderColor", line |-> 1483, color |-> <<9600, 9600, 9408, 10000>>],
     [op |-> "SetShaderTexture", line |-> 1484, tag |-> "napkin"],
     [op |-> "SetTextureUVScale", line |-> 1485, uv |-> <<10000, 10000>>],
     [op |-> "SetShaderMaterial", line |-> 1486, tag |-> "napkin"],
     [op |-> "Draw", line |-> 1487, mesh |-> "DrawBoxMesh", args |-> ""],
     [op |-> "SetTransformations", line |-> 1482, scaleXYZ |-> <<39780, 35890, 506>>, rotationDegrees |-> <<0, 0, 0>>, positionXYZ |-> <<20000, 14945, 46925>>],
     [op |-> "SetShaderColor", line |-> 1483, color |-> <<9400, 9400, 9212, 10000>>],
     [op |-> "SetShaderTexture", line |-> 1484, tag |-> "napkin"],
     [op |-> "SetTextureUVScale", line |-> 1485, uv |-> <<10000, 10000>>],
     [op |-> "SetShaderMaterial", line |-> 1486, tag |-> "napkin"],
     [op |-> "Draw", line |-> 1487, mesh |-> "DrawBoxMesh", args |-> ""],
     [op |-> "SetTransformations", line |-> 1482, scaleXYZ |-> <<39780, 37000, 506>>, rotationDegrees |-> <<0, 0, 0>>, positionXYZ |-> <<20000, 15500, 47475>>],
     [op |-> "SetShaderColor", line |-> 1483, color |-> <<9500, 9500, 9310, 10000>>],
     [op |-> "SetShaderTexture", line |-> 1484, tag |-> "napkin"],
     [op |-> "SetTextureUVScale", line |-> 1485, uv |-> <<10000, 10000>>],
     [op |-> "SetShaderMaterial", line |-> 1486, tag |-> "napkin"],
     [op |-> "Draw", line |-> 1487, mesh |-> "DrawBoxMesh", args |-> ""],
     [op |-> "SetTransformations", line |-> 1482, scaleXYZ |-> <<39780, 35890, 506>>, rotationDegrees |-> <<0, 0, 0>>, positionXYZ |-> <<20000, 14945, 48025>>],
     [op |-> "SetShaderColor", line |-> 1483, color |-> <<9600, 9600, 9408, 10000>>],
     [op |-> "SetShaderTexture", line |-> 1484, tag |-> "napkin"],
     [op |-> "SetTextureUVScale", line |-> 1485, uv |-> <<10000, 10000>>],
     [op |-> "SetShaderMaterial", line |-> 1486, tag |-> "napkin"],
     [op |-> "Draw", line |-> 1487, mesh |-> "DrawBoxMesh", args |-> ""] >>

\* Number of calls in RenderScene's draw script.
ScriptLen == Len(RenderSceneScript)

\* The bonsai in RenderScene, by the source line of each SetTransformations
\* call: the soil disk at the pot rim, the four trunk segments, the spheres
\* at the trunk joints s1..s3, the two branches and their sub-twigs, the core
\* spheres of the three leaf clusters, and the leaf spheres of the sub-twigs.
SoilDiskLine == 897

TrunkSegmentLines == <<926, 938, 950, 962>>

TrunkJointLines == <<932, 944, 956>>

TreeLines ==
  [leftBranch |-> 969, leftTwig |-> 975, rightBranch |-> 982, rightTwig |-> 988,
   crown |-> 1013, leftCluster |-> 1077, rightCluster |-> 1134,
   leftTwigLeaf |-> 1119, rightTwigLeaf |-> 1176]

\* ------------------------------------------------------ the uniform sink

BoolUniforms ==
  {"bUseLighting", "directionalLight.bActive", "spotLight.bActive",
   "pointLights[0].bActive", "pointLights[1].bActive", "pointLights[2].bActive",
   "pointLights[3].bActive", "pointLights[4].bActive"}

IntUniforms == {"bUseTexture", "objectTexture"}

\* Every uniform SetupSceneLights writes.
LightUniforms == { LightUniformWrites[i][1] : i \in 1..Len(LightUniformWrites) }

UniformNames ==
  BoolUniforms \cup IntUniforms \cup LightUniforms
  \cup {"material.diffuseColor", "material.specularColor", "material.shininess",
        "UVscale", "objectColor", "model"}

\* The arguments of a SetTransformations call; all zero when there was none.
ZeroTransform ==
  [scaleXYZ |-> <<0, 0, 0>>, rotationDegrees |-> <<0, 0, 0>>, positionXYZ |-> <<0, 0, 0>>]

\* A 4x4 matrix is a tuple of four rows; entries are in units of 1/10000.
ZeroMatrix == <<<<0, 0, 0, 0>>, <<0, 0, 0, 0>>, <<0, 0, 0, 0>>, <<0, 0, 0, 0>>>>

\* A freshly linked program: every uniform is zero.
ZeroUniform(name) ==
  IF name \in BoolUniforms THEN FALSE
  ELSE IF name \in IntUniforms THEN 0
  ELSE IF name = "material.shininess" THEN 0
  ELSE IF name = "UVscale" THEN <<0, 0>>
  ELSE IF name = "objectColor" THEN <<0, 0, 0, 0>>
  ELSE IF name = "model" THEN ZeroMatrix
  ELSE <<0, 0, 0>>

\* The caller's OBJECT_MATERIAL before FindMaterial fills it.
NoMaterial ==
  [tag |-> "", diffuseColor |-> <<0, 0, 0>>, specularColor |-> <<0, 0, 0>>, shininess |-> 0]

\* An OBJECT_MATERIAL a direct caller of FindMaterial passes in.
CallerMaterial ==
  [tag |-> "caller", diffuseColor |-> <<100, 200, 300>>, specularColor |-> <<400, 500, 600>>,
   shininess |-> 70000]

\* ------------------------------------------------------------------ state

VARIABLES
  sceneManager,       \* the SceneManager object: "alive" or "destroyed"
  m_pShaderManager,   \* "SHADER" or "NULL": the pointer the constructor received
  m_loadedTextures,   \* number of registry entries in use
  m_textureIDs,       \* registry: [0..m_loadedTextures-1 -> [ID, tag]]
  m_objectMaterials,  \* material catalog: sequence of OBJECT_MATERIAL
  shader,             \* the uniform sink: [UniformNames -> value]
  glCullFace,         \* GL_CULL_FACE enabled
  glActiveUnit,       \* glActiveTexture unit, 0-based
  glBoundTexture,     \* [unit -> texture name bound to GL_TEXTURE_2D, 0 for none]
  glTextureNames,     \* texture names generated and not deleted
  glStaleUse,         \* a deleted texture name was handed to glBindTexture/glDeleteTextures
  pc,                 \* RenderScene: 0 when not running, else index of the next scripted call
  cullEnabled,        \* RenderScene's local cullEnabled
  cullBeforeCall,     \* GL_CULL_FACE as it was when RenderScene was entered
  lastCall,           \* the last call made, its arguments and what it returned
  crashed,            \* the process died dereferencing a null pointer
  viewManager,        \* per ViewManager object: "none", "alive" or "destroyed"
  viewManagersBuilt,  \* number of ViewManager objects constructed so far
  m_pWindow,          \* per object, ViewManager::m_pWindow: "WINDOW" or "NULL"
  cursorPosCallback,  \* a GLFW window has Mouse_Position_Callback registered
  bOrthographicProjection,  \* per object, ViewManager::bOrthographicProjection
  g_pCamera,          \* file-level camera pointer: "CAMERA" or "NULL"
  gLastX,             \* file-level float, in 2^-20 pixel
  gLastY,             \* file-level float, in 2^-20 pixel
  gFirstMouse,        \* file-level flag
  g_bOrthographic,    \* file-level flag read by the mouse callback
  cameraYaw,          \* sum of the xOffset handed to Camera::ProcessMouseMovement
  cameraPitch,        \* sum of the yOffset handed to Camera::ProcessMouseMovement
  cameraMoves         \* number of ProcessMouseMovement calls on the current Camera

vars ==
  <<sceneManager, m_pShaderManager, m_loadedTextures, m_textureIDs, m_objectMaterials, shader,
    glCullFace, glActiveUnit, glBoundTexture, glTextureNames, glStaleUse,
    pc, cullEnabled, cullBeforeCall, lastCall, crashed,
    viewManager, viewManagersBuilt, m_pWindow, cursorPosCallback, bOrthographicProjection,
    g_pCamera, gLastX, gLastY, gFirstMouse, g_bOrthographic, cameraYaw, cameraPitch,
    cameraMoves>>

viewVars ==
  <<viewManager, viewManagersBuilt, m_pWindow, cursorPosCallback, bOrthographicProjection,
    g_pCamera, gLastX, gLastY, gFirstMouse, g_bOrthographic, cameraYaw, cameraPitch,
    cameraMoves>>

registryVars == <<m_loadedTextures, m_textureIDs>>
glTextureVars == <<glActiveUnit, glBoundTexture, glTextureNames, glStaleUse>>
frameVars == <<pc, cullEnabled, cullBeforeCall>>

\* Texture units the model tracks: one for every texture of the scene.
TextureUnits == 0..(MaxSceneTextures - 1)

\* A record of one call: op, the tag argument, a numeric argument (n), the
\* int and bool return values, how the call was left ("return", "exception",
\* "crash"), the texture name a CreateGLTexture generated, the caller's
\* OBJECT_MATERIAL before and after a FindMaterial, what stbi_load gave for
\* each file of a LoadSceneTextures, the arguments of a SetTransformations,
\* and the offsets Mouse_Position_Callback computed.
Call(op, tag, n, retInt, retBool, exit) ==
  [op |-> op, tag |-> tag, n |-> n, retInt |-> retInt, retBool |-> retBool, exit |-> exit,
   textureID |-> 0, materialIn |-> NoMaterial, materialOut |-> NoMaterial,
   loads |-> << >>, transform |-> ZeroTransform, xOffset |-> 0, yOffset |-> 0]

\* The ViewManager objects, numbered in the order of their construction.
ViewManagers == 1..MaxViewManagers

\* One pixel of mouse travel: coordinates are kept in 2^-20 pixel.
Pixel == 2^20

\* ViewManager.cpp before any ViewManager is constructed: the file-level
\* variables have their initializers (gLastX = WINDOW_WIDTH / 2, gLastY =
\* WINDOW_HEIGHT / 2), there is no object, no window and no camera.
ViewInit ==
  /\ viewManager = [v \in ViewManagers |-> "none"]
  /\ viewManagersBuilt = 0
  /\ m_pWindow = [v \in ViewManagers |-> "NULL"]
  /\ cursorPosCallback = FALSE
  /\ bOrthographicProjection = [v \in ViewManagers |-> FALSE]
  /\ g_pCamera = "NULL"
  /\ gLastX = 500 * Pixel
  /\ gLastY = 400 * Pixel
  /\ gFirstMouse = TRUE
  /\ g_bOrthographic = FALSE
  /\ cameraYaw = 0
  /\ cameraPitch = 0
  /\ cameraMoves = 0

\* The state the constructor leaves when it is handed pShaderManager, with
\* GL_CULL_FACE as the application set it.
InitWith(pShaderManager, cull) ==
  /\ sceneManager = "alive"
  /\ m_pShaderManager = pShaderManager
  /\ m_loadedTextures = 0
  /\ m_textureIDs = [i \in 0..(-1) |-> [ID |-> 0, tag |-> ""]]
  /\ m_objectMaterials = << >>
  /\ shader = [name \in UniformNames |-> ZeroUniform(name)]
  /\ glCullFace = cull
  /\ glActiveUnit = 0
  /\ glBoundTexture = [u \in TextureUnits |-> 0]
  /\ glTextureNames = {}
  /\ glStaleUse = FALSE
  /\ pc = 0
  /\ cullEnabled = FALSE
  /\ cullBeforeCall = FALSE
  /\ lastCall = Call("SceneManager", "", 0, 0, FALSE, "return")
  /\ crashed = FALSE
  /\ ViewInit

\* A scene manager built on a shader manager, in a fresh GL context
\* (GL_CULL_FACE is disabled there).
Init == InitWith("SHADER", FALSE)

\* The constructor accepts a null shader manager as well.
InitShader == \E p \in {"SHADER", "NULL"} : InitWith(p, FALSE)

\* The on/off uniforms SetupSceneLights writes.
LightFlags == LightUniforms \cap BoolUniforms

\* The shader manager handed to the constructor may have been used before:
\* any of the light flags may be on in its program.
InitLights ==
  \E p \in {"SHADER", "NULL"}, on \in SUBSET LightFlags :
    /\ sceneManager = "alive"
    /\ m_pShaderManager = p
    /\ m_loadedTextures = 0
    /\ m_textureIDs = [i \in 0..(-1) |-> [ID |-> 0, tag |-> ""]]
    /\ m_objectMaterials = << >>
    /\ shader = [name \in UniformNames |-> IF name \in on THEN TRUE ELSE ZeroUniform(name)]
    /\ glCullFace = FALSE
    /\ glActiveUnit = 0
    /\ glBoundTexture = [u \in TextureUnits |-> 0]
    /\ glTextureNames = {}
    /\ glStaleUse = FALSE
    /\ pc = 0
    /\ cullEnabled = FALSE
    /\ cullBeforeCall = FALSE
    /\ lastCall = Call("SceneManager", "", 0, 0, FALSE, "return")
    /\ crashed = FALSE
    /\ ViewInit

\* The application may have enabled GL_CULL_FACE before the first frame.
InitFrame == \E p \in {"SHADER", "NULL"}, cull \in BOOLEAN : InitWith(p, cull)

\* The SceneManager exists, none of its calls is in progress and the
\* process is alive.
Idle == sceneManager = "alive" /\ pc = 0 /\ ~crashed

\* SceneManager::~SceneManager: m_pShaderManager is set to nullptr and the
\* mesh helper deleted. No GL call is made: the textures of the registry
\* stay live in the GL context. The object's life ends here, so no method
\* of it is called afterwards; the registry and the catalog keep the values
\* they ended with.
SceneManagerDelete ==
  /\ Idle
  /\ sceneManager' = "destroyed"
  /\ m_pShaderManager' = "NULL"
  /\ lastCall' = Call("~SceneManager", "", 0, 0, FALSE, "return")
  /\ UNCHANGED <<viewVars, registryVars, m_objectMaterials, shader, glCullFace, glTextureVars,
                 frameVars, crashed>>

\* ------------------------------------------------------- texture registry

\* glGenTextures returns a name that is not in use.
FreshNames == (1..MaxHandle) \ glTextureNames

\* CreateGLTexture's test of colorChannels: GL_RGB8 for 3, GL_RGBA8 for 4,
\* anything else is refused.
ChannelsSupported_NoRefusal(colorChannels) == colorChannels >= 1

ChannelsSupported(colorChannels) == colorChannels = 3 \/ colorChannels = 4

\* m_textureIDs[m_loadedTextures] = {textureID, tag}.
RegistryStore(ids, n, textureID, tag) ==
  [i \in 0..n |-> IF i < n THEN ids[i] ELSE [ID |-> textureID, tag |-> tag]]

\* The GL texture state as one record.
GlTextureState ==
  [active |-> glActiveUnit, bound |-> glBoundTexture, names |-> glTextureNames,
   stale |-> glStaleUse]

\* The registry and the GL texture state as one record.
TextureState == [n |-> m_loadedTextures, ids |-> m_textureIDs, g |-> GlTextureState]

\* CreateGLTexture(filename, tag) on the state st; colorChannels = 0 stands
\* for stbi_load returning a null image, textureID is the name glGenTextures
\* returns. A null image returns false before any GL call. Otherwise the
\* name is generated and bound on the active unit; an unsupported channel
\* count returns false there, and else the texture is unbound and stored in
\* the registry.
CreateGLTextureOn(st, colorChannels, tag, textureID) ==
  IF colorChannels = 0
  THEN [st |-> st, ret |-> FALSE, textureID |-> 0]
  ELSE IF ~ChannelsSupported(colorChannels)
  THEN [st |-> [st EXCEPT !.g.names = st.g.names \cup {textureID},
                          !.g.bound[st.g.active] = textureID],
        ret |-> FALSE, textureID |-> textureID]
  ELSE [st |-> [st EXCEPT !.g.names = st.g.names \cup {textureID},
                          !.g.bound[st.g.active] = 0,
                          !.ids = RegistryStore(st.ids, st.n, textureID, tag),
                          !.n = st.n + 1],
        ret |-> TRUE, textureID |-> textureID]

\* The registry and the GL texture state become st.
SetTextureState(st) ==
  /\ m_loadedTextures' = st.n
  /\ m_textureIDs' = st.ids
  /\ glActiveUnit' = st.g.active
  /\ glBoundTexture' = st.g.bound
  /\ glTextureNames' = st.g.names
  /\ glStaleUse' = st.g.stale

CreateGLTexture(colorChannels, tag) ==
  /\ Idle
  /\ (ChannelsSupported(colorChannels) => m_loadedTextures < MaxTextures)
  /\ \E textureID \in (IF colorChannels = 0 THEN {0} ELSE FreshNames) :
       \E r \in {CreateGLTextureOn(TextureState, colorChannels, tag, textureID)} :
         /\ SetTextureState(r.st)
         /\ lastCall' = [Call("CreateGLTexture", tag, colorChannels, 0, r.ret, "return")
                         EXCEPT !.textureID = r.textureID]
  /\ UNCHANGED <<sceneManager, viewVars, m_pShaderManager, m_objectMaterials, shader, glCullFace, frameVars, crashed>>

\* One glBindTexture(GL_TEXTURE_2D, name) on unit u of the GL state g. A name
\* that was deleted is an error in a core profile (the binding stays) and
\* names a new texture object elsewhere (recreate).
GlBind(g, u, name, recreate) ==
  IF name = 0 \/ name \in g.names
  THEN [g EXCEPT !.active = u, !.bound[u] = name]
  ELSE IF recreate
       THEN [g EXCEPT !.active = u, !.bound[u] = name, !.names = g.names \cup {name}, !.stale = TRUE]
       ELSE [g EXCEPT !.active = u, !.stale = TRUE]

\* The loop of BindGLTextures from index i on: unit i gets m_textureIDs[i].ID.
RECURSIVE BindLoop(_, _, _, _, _)
BindLoop_NoActiveTexture(ids, n, i, g, recreate) ==
  IF i >= n THEN g
  ELSE BindLoop(ids, n, i + 1, GlBind(g, g.active, ids[i].ID, recreate), recreate)

BindLoop(ids, n, i, g, recreate) ==
  IF i >= n THEN g
  ELSE BindLoop(ids, n, i + 1, GlBind(g, i, ids[i].ID, recreate), recreate)

\* Some registered handle is no longer a texture name.
HasStaleEntry == \E i \in 0..(m_loadedTextures - 1) : m_textureIDs[i].ID \notin glTextureNames

BindGLTextures ==
  /\ Idle
  /\ \E recreate \in (IF HasStaleEntry THEN BOOLEAN ELSE {FALSE}) :
       LET g == BindLoop(m_textureIDs, m_loadedTextures, 0, GlTextureState, recreate) IN
         /\ glActiveUnit' = g.active
         /\ glBoundTexture' = g.bound
         /\ glTextureNames' = g.names
         /\ glStaleUse' = g.stale
  /\ lastCall' = Call("BindGLTextures", "", 0, 0, FALSE, "return")
  /\ UNCHANGED <<sceneManager, viewVars, m_pShaderManager, registryVars, m_objectMaterials, shader, glCullFace,
                 frameVars, crashed>>

\* glGenTextures during LoadSceneTextures: the lowest name from first on
\* that is not in use.
GenName(names, first) ==
  CHOOSE x \in first..(first + Cardinality(names)) :
    x \notin names /\ \A y \in first..(x - 1) : y \in names

\* The CreateGLTexture calls of LoadSceneTextures from the i-th on; images[i]
\* is what stbi_load gives for the i-th file. The return values are dropped.
RECURSIVE LoadLoop(_, _, _, _)
LoadLoop(st, images, first, i) ==
  IF i > Len(SceneTextures) THEN st
  ELSE LoadLoop(CreateGLTextureOn(st, images[i], SceneTextures[i], GenName(st.g.names, first)).st,
                images, first, i + 1)

\* Some handle of the registry of st is no longer a texture name.
StaleIn(st) == \E i \in 0..(st.n - 1) : st.ids[i].ID \notin st.g.names

\* The body of LoadSceneTextures: the eight loads, then BindGLTextures.
LoadSceneTexturesOn_BindFirst(st, images, first, recreate) ==
  LoadLoop([st EXCEPT !.g = BindLoop(st.ids, st.n, 0, st.g, recreate)], images, first, 1)

LoadSceneTexturesOn(st, images, first, recreate) ==
  LET loaded == LoadLoop(st, images, first, 1) IN
    [loaded EXCEPT !.g = BindLoop(loaded.ids, loaded.n, 0, loaded.g, recreate)]

\* LoadSceneTextures, for what stbi_load gives for the eight files and the
\* name glGenTextures starts from.
LoadSceneTexturesWith(imageInputs, firstInputs) ==
  /\ Idle
  /\ m_loadedTextures + Len(SceneTextures) <= MaxSceneTextures
  /\ \E images \in imageInputs, first \in firstInputs :
       \E loaded \in {LoadLoop(TextureState, images, first, 1)} :
         /\ loaded.g.names \subseteq 1..MaxSceneHandle
         /\ \E recreate \in (IF StaleIn(loaded) THEN BOOLEAN ELSE {FALSE}) :
              \E st \in {LoadSceneTexturesOn(TextureState, images, first, recreate)} :
                SetTextureState(st)
         /\ lastCall' = [Call("LoadSceneTextures", "", 0, 0, FALSE, "return")
                         EXCEPT !.loads = images]
  /\ UNCHANGED <<sceneManager, viewVars, m_pShaderManager, m_objectMaterials, shader, glCullFace, frameVars, crashed>>

LoadSceneTextures == LoadSceneTexturesWith(SceneImageInputs, FirstNameInputs)

\* One glDeleteTextures(1, &name): a live name is freed and every unit that
\* had it bound reverts to 0; a name that is not live is ignored.
GlDelete(g, name) ==
  IF name \in g.names
  THEN [g EXCEPT !.names = g.names \ {name},
                 !.bound = [u \in DOMAIN g.bound |-> IF g.bound[u] = name THEN 0 ELSE g.bound[u]]]
  ELSE IF name = 0 THEN g ELSE [g EXCEPT !.stale = TRUE]

\* The loop of DestroyGLTextures from index i on.
RECURSIVE DestroyLoop(_, _, _, _)
DestroyLoop(ids, n, i, g) ==
  IF i >= n THEN g
  ELSE DestroyLoop(ids, n, i + 1, GlDelete(g, ids[i].ID))

\* DestroyGLTextures leaves m_loadedTextures and m_textureIDs as they are.
DestroyGLTextures ==
  /\ Idle
  /\ LET g == DestroyLoop(m_textureIDs, m_loadedTextures, 0, GlTextureState) IN
       /\ glActiveUnit' = g.active
       /\ glBoundTexture' = g.bound
       /\ glTextureNames' = g.names
       /\ glStaleUse' = g.stale
  /\ lastCall' = Call("DestroyGLTextures", "", 0, 0, FALSE, "return")
  /\ UNCHANGED <<sceneManager, viewVars, m_pShaderManager, registryVars, m_objectMaterials, shader, glCullFace,
                 frameVars, crashed>>

\* The scan shared by FindTextureID and FindTextureSlot: the first index from
\* i on whose tag matches, -1 when the loop runs out.
RECURSIVE TextureScan(_, _, _, _)
TextureScan_Zero(ids, n, tag, i) ==
  IF \E j \in i..(n - 1) : ids[j].tag = tag THEN 0 ELSE -1

TextureScan(ids, n, tag, i) ==
  IF i >= n THEN -1
  ELSE IF ids[i].tag = tag THEN i
  ELSE TextureScan(ids, n, tag, i + 1)

FindTextureSlotIn(ids, n, tag) == TextureScan(ids, n, tag, 0)

FindTextureIDIn(ids, n, tag) ==
  LET i == TextureScan(ids, n, tag, 0) IN IF i = -1 THEN -1 ELSE ids[i].ID

FindTextureSlot(tag) ==
  /\ Idle
  /\ lastCall' = Call("FindTextureSlot", tag, 0,
                      FindTextureSlotIn(m_textureIDs, m_loadedTextures, tag), FALSE, "return")
  /\ UNCHANGED <<sceneManager, viewVars, m_pShaderManager, registryVars, m_objectMaterials, shader, glCullFace,
                 glTextureVars, frameVars, crashed>>

FindTextureID(tag) ==
  /\ Idle
  /\ lastCall' = Call("FindTextureID", tag, 0,
                      FindTextureIDIn(m_textureIDs, m_loadedTextures, tag), FALSE, "return")
  /\ UNCHANGED <<sceneManager, viewVars, m_pShaderManager, registryVars, m_objectMaterials, shader, glCullFace,
                 glTextureVars, frameVars, crashed>>

\* ------------------------------------------------------- material catalog

\* The range-for of FindMaterial from position i on: the position of the
\* first element whose tag matches, 0 when the loop runs out.
RECURSIVE MaterialScan(_, _, _)
MaterialScan_Last(mats, tag, i) ==
  IF \E j \in i..Len(mats) : mats[j].tag = tag
  THEN CHOOSE j \in i..Len(mats) : mats[j].tag = tag /\ \A k \in (j + 1)..Len(mats) : mats[k].tag # tag
  ELSE 0

MaterialScan(mats, tag, i) ==
  IF i > Len(mats) THEN 0
  ELSE IF mats[i].tag = tag THEN i
  ELSE MaterialScan(mats, tag, i + 1)

\* FindMaterial(tag, material): the return value, the caller's struct after
\* the call, and the position of the catalog element that was copied.
FindMaterialIn_KeepShininess(mats, tag, material) ==
  LET i == MaterialScan(mats, tag, 1) IN
    IF i = 0 THEN [ret |-> FALSE, material |-> material, index |-> 0]
    ELSE [ret |-> TRUE, material |-> [mats[i] EXCEPT !.shininess = material.shininess],
          index |-> i]

FindMaterialIn(mats, tag, material) ==
  LET i == MaterialScan(mats, tag, 1) IN
    IF i = 0 THEN [ret |-> FALSE, material |-> material, index |-> 0]
    ELSE [ret |-> TRUE, material |-> mats[i], index |-> i]

FindMaterial(tag, material) ==
  /\ Idle
  /\ LET r == FindMaterialIn(m_objectMaterials, tag, material) IN
       lastCall' = [Call("FindMaterial", tag, r.index, 0, r.ret, "return")
                      EXCEPT !.materialIn = material, !.materialOut = r.material]
  /\ UNCHANGED <<sceneManager, viewVars, m_pShaderManager, registryVars, m_objectMaterials, shader, glCullFace,
                 glTextureVars, frameVars, crashed>>

\* DefineObjectMaterials pushes its seventeen presets onto the catalog.
DefineObjectMaterials ==
  /\ Idle
  /\ Len(m_objectMaterials) < MaxDefines * Len(MaterialPresets)
  /\ m_objectMaterials' = m_objectMaterials \o MaterialPresets
  /\ lastCall' = Call("DefineObjectMaterials", "", 0, 0, FALSE, "return")
  /\ UNCHANGED <<sceneManager, viewVars, m_pShaderManager, registryVars, shader, glCullFace, glTextureVars,
                 frameVars, crashed>>

\* PrepareScene: DefineObjectMaterials, then the six mesh loads.
PrepareScene ==
  /\ Idle
  /\ Len(m_objectMaterials) < MaxDefines * Len(MaterialPresets)
  /\ m_objectMaterials' = m_objectMaterials \o MaterialPresets
  /\ lastCall' = Call("PrepareScene", "", 0, 0, FALSE, "return")
  /\ UNCHANGED <<sceneManager, viewVars, m_pShaderManager, registryVars, shader, glCullFace, glTextureVars,
                 frameVars, crashed>>

\* ------------------------------------------------------- shader setters
\* Each setter is a function from the sink's state to the result of the
\* call: the sink's state afterwards, and whether the call dereferenced a
\* null m_pShaderManager.

Done(sh) == [shader |-> sh, crashed |-> FALSE]
NullDeref(sh) == [shader |-> sh, crashed |-> TRUE]

\* Fixed-point product: a * b / 10000 rounded to the nearest unit, computed
\* in parts so that no intermediate leaves 32 bits.
MulFix(a, b) ==
  LET qa == a \div 10000
      ra == a % 10000
      qb == b \div 10000
      rb == b % 10000
  IN  qa * b + ra * qb + ((ra * rb + 5000) \div 10000)

\* sin and cos, in 1/10000, of the whole degrees SetTransformations is
\* called with (glm::radians, then the sine and cosine glm::rotate takes).
SinTable ==
  0 :> 0 @@ 8 :> 1392 @@ 15 :> 2588 @@ 20 :> 3420 @@ 22 :> 3746 @@ 35 :> 5736 @@
  42 :> 6691 @@ 50 :> 7660 @@ 55 :> 8192 @@ 90 :> 10000 @@ 180 :> 0

CosTable ==
  0 :> 10000 @@ 8 :> 9903 @@ 15 :> 9659 @@ 20 :> 9397 @@ 22 :> 9272 @@ 35 :> 8192 @@
  42 :> 7431 @@ 50 :> 6428 @@ 55 :> 5736 @@ 90 :> 0 @@ 180 :> -10000

\* degrees is an angle in 1/10000 degree.
SinDeg(degrees) ==
  LET d == degrees \div 10000 IN IF d < 0 THEN -SinTable[-d] ELSE SinTable[d]

CosDeg(degrees) ==
  LET d == degrees \div 10000 IN IF d < 0 THEN CosTable[-d] ELSE CosTable[d]

\* glm::translate(v), glm::rotate(angle, axis) for the three axes, and
\* glm::scale(v).
Translate(v) ==
  <<<<10000, 0, 0, v[1]>>, <<0, 10000, 0, v[2]>>, <<0, 0, 10000, v[3]>>, <<0, 0, 0, 10000>>>>

RotateX(degrees) ==
  <<<<10000, 0, 0, 0>>,
    <<0, CosDeg(degrees), -SinDeg(degrees), 0>>,
    <<0, SinDeg(degrees), CosDeg(degrees), 0>>,
    <<0, 0, 0, 10000>>>>

RotateY(degrees) ==
  <<<<CosDeg(degrees), 0, SinDeg(degrees), 0>>,
    <<0, 10000, 0, 0>>,
    <<-SinDeg(degrees), 0, CosDeg(degrees), 0>>,
    <<0, 0, 0, 10000>>>>

RotateZ(degrees) ==
  <<<<CosDeg(degrees), -SinDeg(degrees), 0, 0>>,
    <<SinDeg(degrees), CosDeg(degrees), 0, 0>>,
    <<0, 0, 10000, 0>>,
    <<0, 0, 0, 10000>>>>

ScaleMatrix(v) ==
  <<<<v[1], 0, 0, 0>>, <<0, v[2], 0, 0>>, <<0, 0, v[3], 0>>, <<0, 0, 0, 10000>>>>

\* The matrix product A * B.
Dot(A, B, i, j) ==
  MulFix(A[i][1], B[1][j]) + MulFix(A[i][2], B[2][j])
    + MulFix(A[i][3], B[3][j]) + MulFix(A[i][4], B[4][j])

MatRow(A, B, i) == <<Dot(A, B, i, 1), Dot(A, B, i, 2), Dot(A, B, i, 3), Dot(A, B, i, 4)>>

MatMul(A, B) == <<MatRow(A, B, 1), MatRow(A, B, 2), MatRow(A, B, 3), MatRow(A, B, 4)>>

\* modelView = translate * rotateZ * rotateY * rotateX * scale.
ModelMatrix_XYZ(scaleXYZ, rotationDegrees, positionXYZ) ==
  MatMul(MatMul(MatMul(MatMul(Translate(positionXYZ), RotateX(rotationDegrees[1])),
                       RotateY(rotationDegrees[2])),
                RotateZ(rotationDegrees[3])),
         ScaleMatrix(scaleXYZ))

ModelMatrix(scaleXYZ, rotationDegrees, positionXYZ) ==
  MatMul(MatMul(MatMul(MatMul(Translate(positionXYZ), RotateZ(rotationDegrees[3])),
                       RotateY(rotationDegrees[2])),
                RotateX(rotationDegrees[1])),
         ScaleMatrix(scaleXYZ))

\* SetTransformations(scaleXYZ, XrotationDegrees, YrotationDegrees,
\* ZrotationDegrees, positionXYZ); rotationDegrees holds the three angles.
SetTransformationsOn_Skip(sh, scaleXYZ, rotationDegrees, positionXYZ) == Done(sh)

SetTransformationsOn(sh, scaleXYZ, rotationDegrees, positionXYZ) ==
  IF m_pShaderManager # "NULL"
  THEN Done([sh EXCEPT !["model"] = ModelMatrix(scaleXYZ, rotationDegrees, positionXYZ)])
  ELSE Done(sh)

SetShaderColorOn_OnlyAfterTexture(sh, color) ==
  IF m_pShaderManager # "NULL" /\ sh["bUseTexture"] = 1
  THEN Done([sh EXCEPT !["bUseTexture"] = 0, !["objectColor"] = color])
  ELSE Done(sh)

SetShaderColorOn(sh, color) ==
  IF m_pShaderManager # "NULL"
  THEN Done([sh EXCEPT !["bUseTexture"] = 0, !["objectColor"] = color])
  ELSE Done(sh)

\* SetShaderTexture writes bUseTexture = true and the sampler = whatever
\* FindTextureSlot returned, -1 included.
SetShaderTextureOn(sh, textureTag) ==
  IF m_pShaderManager # "NULL"
  THEN Done([sh EXCEPT !["bUseTexture"] = 1,
                       !["objectTexture"] = FindTextureSlotIn(m_textureIDs, m_loadedTextures, textureTag)])
  ELSE Done(sh)

SetTextureUVScaleOn(sh, uv) ==
  IF m_pShaderManager # "NULL"
  THEN Done([sh EXCEPT !["UVscale"] = uv])
  ELSE Done(sh)

\* SetShaderMaterial has no null test: it writes through m_pShaderManager
\* whenever FindMaterial found the tag.
SetShaderMaterialOn_Default(sh, materialTag) ==
  LET r == FindMaterialIn(m_objectMaterials, materialTag, NoMaterial) IN
    IF m_pShaderManager = "NULL" THEN (IF r.ret THEN NullDeref(sh) ELSE Done(sh))
    ELSE Done([sh EXCEPT !["material.diffuseColor"] = r.material.diffuseColor,
                         !["material.specularColor"] = r.material.specularColor,
                         !["material.shininess"] = r.material.shininess])

SetShaderMaterialOn(sh, materialTag) ==
  LET r == FindMaterialIn(m_objectMaterials, materialTag, NoMaterial) IN
    IF r.ret
    THEN IF m_pShaderManager = "NULL" THEN NullDeref(sh)
         ELSE Done([sh EXCEPT !["material.diffuseColor"] = r.material.diffuseColor,
                              !["material.specularColor"] = r.material.specularColor,
                              !["material.shininess"] = r.material.shininess])
    ELSE Done(sh)

\* The uniform writes of a list, in order.
RECURSIVE ApplyWrites(_, _, _)
ApplyWrites(sh, writes, i) ==
  IF i > Len(writes) THEN sh
  ELSE ApplyWrites([sh EXCEPT ![writes[i][1]] = writes[i][2]], writes, i + 1)

\* SetupSceneLights has no null test either.
SetupSceneLightsOn_EnableOnly(sh) ==
  IF m_pShaderManager = "NULL" THEN NullDeref(sh)
  ELSE Done(ApplyWrites(sh, SubSeq(LightUniformWrites, 1, Len(LightUniformWrites) - 2), 1))

SetupSceneLightsOn(sh) ==
  IF m_pShaderManager = "NULL" THEN NullDeref(sh)
  ELSE Done(ApplyWrites(sh, LightUniformWrites, 1))

\* A setter called directly: its result becomes the state.
Setter(op, tag, r) ==
  /\ Idle
  /\ shader' = r.shader
  /\ crashed' = r.crashed
  /\ lastCall' = Call(op, tag, 0, 0, FALSE, IF r.crashed THEN "crash" ELSE "return")
  /\ UNCHANGED <<sceneManager, viewVars, m_pShaderManager, registryVars, m_objectMaterials, glCullFace, glTextureVars,
                 frameVars>>

SetTransformations(scaleXYZ, rotationDegrees, positionXYZ) ==
  /\ Idle
  /\ \E r \in {SetTransformationsOn(shader, scaleXYZ, rotationDegrees, positionXYZ)} :
       /\ shader' = r.shader
       /\ crashed' = r.crashed
  /\ lastCall' = [Call("SetTransformations", "", 0, 0, FALSE, "return")
                  EXCEPT !.transform = [scaleXYZ |-> scaleXYZ,
                                        rotationDegrees |-> rotationDegrees,
                                        positionXYZ |-> positionXYZ]]
  /\ UNCHANGED <<sceneManager, viewVars, m_pShaderManager, registryVars, m_objectMaterials, glCullFace, glTextureVars,
                 frameVars>>

SetupSceneLights == Setter("SetupSceneLights", "", SetupSceneLightsOn(shader))

SetShaderColor(color) == Setter("SetShaderColor", "", SetShaderColorOn(shader, color))

SetShaderTexture(textureTag) ==
  Setter("SetShaderTexture", textureTag, SetShaderTextureOn(shader, textureTag))

SetShaderMaterial(materialTag) ==
  Setter("SetShaderMaterial", materialTag, SetShaderMaterialOn(shader, materialTag))

\* ------------------------------------------------------------ RenderScene

\* One call of the draw script applied to the sink.
ExecCall(sh, c) ==
  CASE c.op = "SetTransformations" ->
         SetTransformationsOn(sh, c.scaleXYZ, c.rotationDegrees, c.positionXYZ)
    [] c.op = "SetShaderColor" -> SetShaderColorOn(sh, c.color)
    [] c.op = "SetShaderTexture" -> SetShaderTextureOn(sh, c.tag)
    [] c.op = "SetTextureUVScale" -> SetTextureUVScaleOn(sh, c.uv)
    [] c.op = "SetShaderMaterial" -> SetShaderMaterialOn(sh, c.tag)
    [] c.op = "Draw" -> Done(sh)

\* The uniform writes a scripted call makes, in the order of its statements:
\* none for a draw request, for a setter that finds m_pShaderManager null
\* and for a SetShaderMaterial whose tag is not in the catalog.
CallWrites(c) ==
  IF m_pShaderManager = "NULL" THEN << >>
  ELSE CASE c.op = "SetTransformations" ->
              << <<"model", ModelMatrix(c.scaleXYZ, c.rotationDegrees, c.positionXYZ)>> >>
         [] c.op = "SetShaderColor" ->
              << <<"bUseTexture", 0>>, <<"objectColor", c.color>> >>
         [] c.op = "SetShaderTexture" ->
              << <<"bUseTexture", 1>>,
                 <<"objectTexture",
                   FindTextureSlotIn(m_textureIDs, m_loadedTextures, c.tag)>> >>
         [] c.op = "SetTextureUVScale" -> << <<"UVscale", c.uv>> >>
         [] c.op = "SetShaderMaterial" ->
              LET r == FindMaterialIn(m_objectMaterials, c.tag, NoMaterial) IN
                IF r.ret
                THEN << <<"material.diffuseColor", r.material.diffuseColor>>,
                        <<"material.specularColor", r.material.specularColor>>,
                        <<"material.shininess", r.material.shininess>> >>
                ELSE << >>
         [] c.op = "Draw" -> << >>

\* The sinks a call may leave when it raises, from write i on: the raise
\* comes from the call itself or from one of its writes, so any number of
\* the writes is completed but never the last one.
RECURSIVE PartialWrites(_, _, _)
PartialWrites(sh, writes, i) ==
  IF i >= Len(writes) THEN {sh}
  ELSE {sh} \cup PartialWrites([sh EXCEPT ![writes[i][1]] = writes[i][2]], writes, i + 1)

\* The tag argument of a scripted call, "" when it has none.
CallTag(c) == IF c.op \in {"SetShaderTexture", "SetShaderMaterial"} THEN c.tag ELSE ""

\* The transform arguments of a scripted call, zero when it has none.
CallTransform_Zero(c) == ZeroTransform

CallTransform(c) ==
  IF c.op = "SetTransformations"
  THEN [scaleXYZ |-> c.scaleXYZ, rotationDegrees |-> c.rotationDegrees,
        positionXYZ |-> c.positionXYZ]
  ELSE ZeroTransform

\* The arguments RenderScene passes to the SetTransformations call on the
\* given source line.
PassedAt(line) ==
  CallTransform(RenderSceneScript[
    CHOOSE i \in 1..ScriptLen :
      RenderSceneScript[i].op = "SetTransformations" /\ RenderSceneScript[i].line = line])

\* The scripted calls lo..hi of RenderScene, in order, applied to the sink
\* (the range is halved so that the evaluation stays shallow); a call that
\* dereferences a null pointer ends the run.
RECURSIVE RunScript(_, _, _)
RunScript(r, lo, hi) ==
  IF r.crashed \/ lo > hi THEN r
  ELSE IF lo = hi THEN ExecCall(r.shader, RenderSceneScript[lo])
  ELSE RunScript(RunScript(r, lo, (lo + hi) \div 2), (lo + hi) \div 2 + 1, hi)

\* A whole RenderScene applied to the sink: SetupSceneLights, then the script.
RenderSceneOn(sh) == RunScript(SetupSceneLightsOn(sh), 1, ScriptLen)

\* RenderScene's last statement: if (cullEnabled) glEnable(GL_CULL_FACE).
RestoreCull_Never(saved, current) == current

RestoreCull(saved, current) == IF saved THEN TRUE ELSE current

\* RenderScene up to its first scripted call: SetupSceneLights, then
\* cullEnabled = glIsEnabled(GL_CULL_FACE); glDisable(GL_CULL_FACE).
RenderSceneBegin_NoLights ==
  /\ Idle
  /\ cullBeforeCall' = glCullFace
  /\ lastCall' = Call("glDisable", "", 0, 0, FALSE, "return")
  /\ cullEnabled' = glCullFace
  /\ glCullFace' = FALSE
  /\ pc' = 1
  /\ UNCHANGED <<sceneManager, viewVars, m_pShaderManager, registryVars, m_objectMaterials, glTextureVars, shader,
                 crashed>>

RenderSceneBegin ==
  /\ Idle
  /\ LET r == SetupSceneLightsOn(shader) IN
       /\ shader' = r.shader
       /\ crashed' = r.crashed
       /\ cullBeforeCall' = glCullFace
       /\ IF r.crashed
          THEN /\ lastCall' = Call("RenderScene", "", 0, 0, FALSE, "crash")
               /\ UNCHANGED <<pc, cullEnabled, glCullFace>>
          ELSE /\ lastCall' = Call("SetupSceneLights", "", 0, 0, FALSE, "return")
               /\ cullEnabled' = glCullFace
               /\ glCullFace' = FALSE
               /\ pc' = 1
  /\ UNCHANGED <<sceneManager, viewVars, m_pShaderManager, registryVars, m_objectMaterials, glTextureVars>>

\* The next scripted call runs and returns.
RenderSceneStep ==
  /\ ~crashed
  /\ pc \in 1..ScriptLen
  /\ \E c \in {RenderSceneScript[pc]} :
       \E r \in {ExecCall(shader, c)} :
         /\ shader' = r.shader
         /\ crashed' = r.crashed
         /\ lastCall' = [Call(c.op, CallTag(c), c.line, 0, FALSE,
                              IF r.crashed THEN "crash" ELSE "return")
                         EXCEPT !.transform = CallTransform(c)]
         /\ pc' = pc + 1
  /\ UNCHANGED <<sceneManager, viewVars, m_pShaderManager, registryVars, m_objectMaterials, glCullFace, glTextureVars,
                 cullEnabled, cullBeforeCall>>

\* A call made by RenderScene raises (a uniform write or a draw request):
\* there is no handler in RenderScene, so the writes the call had completed
\* stay in the sink and RenderScene is left at once. A raise inside
\* SetupSceneLights (line 553) comes before glIsEnabled and glDisable, so
\* GL_CULL_FACE is as it was; a raise in a scripted call comes after
\* glDisable and the restore of GL_CULL_FACE is not reached. The source line
\* of the call is recorded.
RenderSceneThrow ==
  /\ sceneManager = "alive"
  /\ ~crashed
  /\ IF pc = 0
     THEN /\ m_pShaderManager # "NULL"
          /\ shader' \in PartialWrites(shader, LightUniformWrites, 1)
          /\ lastCall' = Call("RenderScene", "", 553, 0, FALSE, "exception")
          /\ cullBeforeCall' = glCullFace
     ELSE /\ pc \in 1..ScriptLen
          /\ shader' \in PartialWrites(shader, CallWrites(RenderSceneScript[pc]), 1)
          /\ lastCall' = Call("RenderScene", "", RenderSceneScript[pc].line, 0, FALSE,
                              "exception")
          /\ cullBeforeCall' = cullBeforeCall
  /\ pc' = 0
  /\ cullEnabled' = FALSE
  /\ UNCHANGED <<sceneManager, viewVars, m_pShaderManager, registryVars, m_objectMaterials, glCullFace,
                 glTextureVars, crashed>>

\* The script is through: restore GL_CULL_FACE and return.
RenderSceneEnd_ClearCatalog ==
  /\ ~crashed
  /\ pc = ScriptLen + 1
  /\ glCullFace' = RestoreCull(cullEnabled, glCullFace)
  /\ lastCall' = Call("RenderScene", "", 0, 0, FALSE, "return")
  /\ pc' = 0
  /\ cullEnabled' = FALSE
  /\ m_objectMaterials' = << >>
  /\ UNCHANGED <<sceneManager, viewVars, m_pShaderManager, registryVars, shader, glTextureVars,
                 cullBeforeCall, crashed>>

RenderSceneEnd ==
  /\ ~crashed
  /\ pc = ScriptLen + 1
  /\ glCullFace' = RestoreCull(cullEnabled, glCullFace)
  /\ lastCall' = Call("RenderScene", "", 0, 0, FALSE, "return")
  /\ pc' = 0
  /\ cullEnabled' = FALSE
  /\ UNCHANGED <<sceneManager, viewVars, m_pShaderManager, registryVars, m_objectMaterials, shader, glTextureVars,
                 cullBeforeCall, crashed>>

\* ------------------------------------------------------------ ViewManager

sceneVars ==
  <<sceneManager, m_pShaderManager, registryVars, m_objectMaterials, shader, glCullFace, glTextureVars,
    frameVars>>

\* The spacing of 32-bit floats around v (v in 2^-20 units): the least power
\* of two u such that |v| < 2^24 * u.
RECURSIVE FloatUlp(_, _)
FloatUlp(v, u) ==
  IF (IF v < 0 THEN -v ELSE v) \div u < 2^24 THEN u ELSE FloatUlp(v, 2 * u)

\* A double narrowed to float: the nearest float, ties to the even one.
ToFloat(v) ==
  LET u == FloatUlp(v, 1)
      q == v \div u
      r == v % u
  IN  IF 2 * r < u THEN q * u
      ELSE IF 2 * r > u THEN (q + 1) * u
      ELSE IF q % 2 = 0 THEN q * u ELSE (q + 1) * u

\* ViewManager::ViewManager: the new object's member flag is cleared and a
\* new Camera is stored in g_pCamera, whatever g_pCamera held (a Camera of
\* an earlier object is not deleted); the other file-level variables keep
\* their values. The call record holds the object's number.
ViewManagerNew ==
  /\ ~crashed
  /\ viewManagersBuilt < MaxViewManagers
  /\ \E v \in {viewManagersBuilt + 1} :
       /\ viewManager' = [viewManager EXCEPT ![v] = "alive"]
       /\ bOrthographicProjection' = [bOrthographicProjection EXCEPT ![v] = FALSE]
       /\ m_pWindow' = [m_pWindow EXCEPT ![v] = "NULL"]
       /\ lastCall' = Call("ViewManager", "", 0, v, FALSE, "return")
  /\ viewManagersBuilt' = viewManagersBuilt + 1
  /\ g_pCamera' = "CAMERA"
  /\ cameraYaw' = 0
  /\ cameraPitch' = 0
  /\ cameraMoves' = 0
  /\ UNCHANGED <<sceneVars, crashed, cursorPosCallback, gLastX, gLastY, gFirstMouse,
                 g_bOrthographic>>

\* ViewManager::~ViewManager: the Camera g_pCamera points to, if any, is
\* deleted and g_pCamera cleared; the GLFW window and the callback
\* registered on it are left alone.
ViewManagerDelete(v) ==
  /\ ~crashed
  /\ viewManager[v] = "alive"
  /\ viewManager' = [viewManager EXCEPT ![v] = "destroyed"]
  /\ g_pCamera' = "NULL"
  /\ m_pWindow' = [m_pWindow EXCEPT ![v] = "NULL"]
  /\ cameraYaw' = 0
  /\ cameraPitch' = 0
  /\ cameraMoves' = 0
  /\ lastCall' = Call("~ViewManager", "", 0, v, FALSE, "return")
  /\ UNCHANGED <<sceneVars, crashed, viewManagersBuilt, cursorPosCallback,
                 bOrthographicProjection, gLastX, gLastY, gFirstMouse, g_bOrthographic>>

\* CreateDisplayWindow: when glfwCreateWindow fails, glfwTerminate (which
\* destroys every window) and nullptr; else the callback is registered on
\* the new window and m_pWindow set.
CreateDisplayWindow(v, created) ==
  /\ ~crashed
  /\ viewManager[v] = "alive"
  /\ IF created
     THEN /\ cursorPosCallback' = TRUE
          /\ m_pWindow' = [m_pWindow EXCEPT ![v] = "WINDOW"]
     ELSE /\ cursorPosCallback' = FALSE
          /\ m_pWindow' = m_pWindow
  /\ lastCall' = Call("CreateDisplayWindow", "", 0, v, created, "return")
  /\ UNCHANGED <<sceneVars, crashed, viewManager, viewManagersBuilt, bOrthographicProjection,
                 g_pCamera, gLastX, gLastY, gFirstMouse, g_bOrthographic, cameraYaw,
                 cameraPitch, cameraMoves>>

\* Offsets taken from the stored position even on a first event.
MouseLook_StaleFirst(xMousePos, yMousePos) ==
  [xOffset |-> ToFloat(xMousePos - gLastX),
   yOffset |-> ToFloat(gLastY - yMousePos),
   lastX |-> ToFloat(xMousePos),
   lastY |-> ToFloat(yMousePos)]

\* What Mouse_Position_Callback computes in perspective mode: the offsets
\* (from the position just stored when gFirstMouse is set) and the position
\* it stores.
MouseLook(xMousePos, yMousePos) ==
  LET fromX == IF gFirstMouse THEN ToFloat(xMousePos) ELSE gLastX
      fromY == IF gFirstMouse THEN ToFloat(yMousePos) ELSE gLastY
  IN  [xOffset |-> ToFloat(xMousePos - fromX),
       yOffset |-> ToFloat(fromY - yMousePos),
       lastX |-> ToFloat(xMousePos),
       lastY |-> ToFloat(yMousePos)]

\* The test that opens Mouse_Position_Callback: g_bOrthographic.
MouseLookDisabled(ortho) == ortho

\* Mouse_Position_Callback, invoked by GLFW for a window it is registered
\* on. In orthographic mode it returns at once; else it updates the stored
\* position and calls g_pCamera->ProcessMouseMovement without a null test.
Mouse_Position_Callback(xMousePos, yMousePos) ==
  /\ ~crashed
  /\ cursorPosCallback
  /\ IF MouseLookDisabled(g_bOrthographic)
     THEN /\ lastCall' = Call("Mouse_Position_Callback", "orthographic", 0, 0, FALSE, "return")
          /\ UNCHANGED <<gLastX, gLastY, gFirstMouse, cameraYaw, cameraPitch, cameraMoves,
                          crashed>>
     ELSE \E m \in {MouseLook(xMousePos, yMousePos)} :
            /\ gLastX' = m.lastX
            /\ gLastY' = m.lastY
            /\ gFirstMouse' = FALSE
            /\ IF g_pCamera = "NULL"
               THEN /\ crashed' = TRUE
                    /\ UNCHANGED <<cameraYaw, cameraPitch, cameraMoves>>
                    /\ lastCall' = [Call("Mouse_Position_Callback", "perspective", 0, 0,
                                         gFirstMouse, "crash")
                                    EXCEPT !.xOffset = m.xOffset, !.yOffset = m.yOffset]
               ELSE /\ cameraMoves < MaxMouseMoves
                    /\ cameraMoves' = cameraMoves + 1
                    /\ cameraYaw' = cameraYaw + m.xOffset
                    /\ cameraPitch' = cameraPitch + m.yOffset
                    /\ crashed' = FALSE
                    /\ lastCall' = [Call("Mouse_Position_Callback", "perspective", 0, 0,
                                         gFirstMouse, "return")
                                    EXCEPT !.xOffset = m.xOffset, !.yOffset = m.yOffset]
  /\ UNCHANGED <<sceneVars, viewManager, viewManagersBuilt, m_pWindow, cursorPosCallback,
                 bOrthographicProjection, g_pCamera, g_bOrthographic>>

\* The projection switching of ProcessKeyboardEvents for the keys held
\* down: O in perspective switches to orthographic, then P in orthographic
\* switches back; either switch sets gFirstMouse.
ProcessKeyboardEventsOn(ortho, keys) ==
  LET afterO == ("O" \in keys /\ ~ortho)
      o == IF afterO THEN TRUE ELSE ortho
      afterP == ("P" \in keys /\ o)
  IN  [ortho |-> IF afterP THEN FALSE ELSE o, switched |-> afterO \/ afterP]

\* The keys held down, as the number recorded with a PrepareSceneView call:
\* 1 for O, 2 for P, 3 for both.
KeyMask(keys) == (IF "O" \in keys THEN 1 ELSE 0) + (IF "P" \in keys THEN 2 ELSE 0)

\* PrepareSceneView: nothing without a window; else ProcessKeyboardEvents
\* (which returns at once without a camera), then g_pCamera->GetViewMatrix()
\* without a null test, and the projection of the object's mode.
PrepareSceneView(v, keys) ==
  /\ ~crashed
  /\ viewManager[v] = "alive"
  /\ IF m_pWindow[v] = "NULL"
     THEN /\ lastCall' = Call("PrepareSceneView", "", KeyMask(keys), v, FALSE, "return")
          /\ UNCHANGED <<bOrthographicProjection, g_bOrthographic, gFirstMouse, crashed>>
     ELSE IF g_pCamera = "NULL"
     THEN /\ lastCall' = Call("PrepareSceneView", "", KeyMask(keys), v, FALSE, "crash")
          /\ crashed' = TRUE
          /\ UNCHANGED <<bOrthographicProjection, g_bOrthographic, gFirstMouse>>
     ELSE \E k \in {ProcessKeyboardEventsOn(bOrthographicProjection[v], keys)} :
            /\ bOrthographicProjection' = [bOrthographicProjection EXCEPT ![v] = k.ortho]
            /\ g_bOrthographic' = (IF k.switched THEN k.ortho ELSE g_bOrthographic)
            /\ gFirstMouse' = (IF k.switched THEN TRUE ELSE gFirstMouse)
            /\ crashed' = FALSE
            /\ lastCall' = Call("PrepareSceneView",
                                IF k.ortho THEN "orthographic" ELSE "perspective",
                                KeyMask(keys), v, bOrthographicProjection[v], "return")
  /\ UNCHANGED <<sceneVars, viewManager, viewManagersBuilt, m_pWindow, cursorPosCallback,
                 g_pCamera, gLastX, gLastY, cameraYaw, cameraPitch, cameraMoves>>

\* --------------------------------------------------------- specifications

\* The texture registry: loads of every outcome, and the lookups.
Next ==
  \/ \E c \in ImageInputs, tag \in TextureTagInputs : CreateGLTexture(c, tag)
  \/ \E tag \in TextureLookupInputs : FindTextureSlot(tag)
  \/ \E tag \in TextureLookupInputs : FindTextureID(tag)
  \/ SceneManagerDelete

Spec == Init /\ [][Next]_vars

\* The GL side of the registry: loads that succeed, binding, teardown, and
\* the lookups after them.
NextGL ==
  \/ \E tag \in TextureTagInputs : CreateGLTexture(3, tag)
  \/ BindGLTextures
  \/ DestroyGLTextures
  \/ \E tag \in TextureTagInputs : FindTextureSlot(tag)
  \/ \E tag \in TextureTagInputs : FindTextureID(tag)
  \/ SceneManagerDelete

SpecGL == Init /\ [][NextGL]_vars

\* The texture setters over registries in which loads succeeded or failed.
NextShader ==
  \/ \E c \in ImageInputs, tag \in TextureTagInputs : CreateGLTexture(c, tag)
  \/ \E tag \in TextureLookupInputs : SetShaderTexture(tag)
  \/ \E color \in ColorInputs : SetShaderColor(color)
  \/ SceneManagerDelete

SpecShader == InitShader /\ [][NextShader]_vars

\* The material catalog and the setters around it.
NextMaterial ==
  \/ DefineObjectMaterials
  \/ \E tag \in MaterialLookupInputs, m \in {NoMaterial, CallerMaterial} : FindMaterial(tag, m)
  \/ \E tag \in MaterialLookupInputs : SetShaderMaterial(tag)
  \/ \E tag \in TextureLookupInputs : SetShaderTexture(tag)
  \/ \E color \in ColorInputs : SetShaderColor(color)
  \/ SceneManagerDelete

SpecMaterial == InitShader /\ [][NextMaterial]_vars

\* Transforms: SetTransformations over quarter-turn rotations and whole
\* scales and translations, with a shader manager or without.
NextTransform ==
  \/ \E scaleXYZ \in ScaleInputs, positionXYZ \in PositionInputs,
        x \in QuarterTurnInputs, y \in QuarterTurnInputs, z \in QuarterTurnInputs :
       SetTransformations(scaleXYZ, <<x, y, z>>, positionXYZ)
  \/ SceneManagerDelete

SpecTransform == InitShader /\ [][NextTransform]_vars

\* Scene textures: LoadSceneTextures with every outcome of its eight loads,
\* and the lookups after it.
NextLoad ==
  \/ LoadSceneTextures
  \/ \E tag \in SceneLookupInputs : FindTextureSlot(tag)
  \/ \E tag \in SceneLookupInputs : FindTextureID(tag)
  \/ SceneManagerDelete

SpecLoad == Init /\ [][NextLoad]_vars

\* Lights: SetupSceneLights called on a shader program in any light state,
\* with a color write between calls.
NextLights ==
  \/ SetupSceneLights
  \/ \E color \in ColorInputs : SetShaderColor(color)
  \/ SceneManagerDelete

SpecLights == InitLights /\ [][NextLights]_vars

\* The view: ViewManager objects built and destroyed in any order, their
\* windows, the mouse callback GLFW delivers, and the per-frame
\* PrepareSceneView with any of the O and P keys down.
NextView ==
  \/ ViewManagerNew
  \/ \E v \in ViewManagers : ViewManagerDelete(v)
  \/ \E v \in ViewManagers, created \in BOOLEAN : CreateDisplayWindow(v, created)
  \/ \E p \in MouseInputs : Mouse_Position_Callback(p[1], p[2])
  \/ \E v \in ViewManagers, keys \in KeyInputs : PrepareSceneView(v, keys)

SpecView == Init /\ [][NextView]_vars

\* Frames: scene preparation, the scene's textures, and RenderScene.
NextFrame ==
  \/ PrepareScene
  \/ LoadSceneTexturesWith(FrameImageInputs, {1})
  \/ RenderSceneBegin
  \/ RenderSceneStep
  \/ RenderSceneThrow
  \/ RenderSceneEnd
  \/ SceneManagerDelete

SpecFrame == InitFrame /\ [][NextFrame]_vars

\* ----------------------------------------------------------------- claims

\* The registry entry at index i.
Entry(i) == m_textureIDs[i]

\* The indices of the registry in use.
Slots == 0..(m_loadedTextures - 1)

\* C1: when RenderScene runs to completion, GL_CULL_FACE has the value it had
\* immediately before the call, whichever value that was and however many
\* frames ran before.
C1_CullRestoredOnReturn ==
  (lastCall.op = "RenderScene" /\ lastCall.exit = "return") => glCullFace = cullBeforeCall

\* C1 witness: a frame that was entered with culling enabled has returned
\* with culling enabled.
C1_Witness ==
  /\ lastCall.op = "RenderScene" /\ lastCall.exit = "return"
  /\ cullBeforeCall /\ glCullFace

\* C2: GL_CULL_FACE is restored on every exit path of RenderScene, also when
\* a uniform write or a draw request raises between glDisable and the last
\* statement.
C2_CullRestoredOnEveryExit ==
  (lastCall.op = "RenderScene" /\ lastCall.exit \in {"return", "exception"})
    => glCullFace = cullBeforeCall

\* C3: CreateGLTexture returns false and leaves the registry as it was when
\* the image is not decoded or has neither 3 nor 4 channels; otherwise it
\* returns true and appends exactly one entry, the given tag with the newly
\* generated handle, at index m_loadedTextures, which grows by one.
C3_CreateGLTextureContract ==
  [][ lastCall'.op = "CreateGLTexture" =>
        IF lastCall'.n \notin {3, 4}
        THEN /\ lastCall'.retBool = FALSE
             /\ m_loadedTextures' = m_loadedTextures
             /\ m_textureIDs' = m_textureIDs
        ELSE /\ lastCall'.retBool = TRUE
             /\ m_loadedTextures' = m_loadedTextures + 1
             /\ DOMAIN m_textureIDs' = 0..m_loadedTextures
             /\ m_textureIDs'[m_loadedTextures] =
                  [ID |-> lastCall'.textureID, tag |-> lastCall'.tag]
             /\ lastCall'.textureID \notin glTextureNames
             /\ lastCall'.textureID \in glTextureNames'
             /\ \A i \in Slots : m_textureIDs'[i] = m_textureIDs[i] ]_vars

\* C3 witness: with one texture registered, an image with one channel was
\* refused.
C3_Witness ==
  /\ lastCall.op = "CreateGLTexture" /\ lastCall.n = 1 /\ ~lastCall.retBool
  /\ m_loadedTextures = 1

\* C4: after SetShaderTexture with a tag FindTextureSlot does not find, the
\* shader is in flat-color mode: bUseTexture is not enabled and the sampler
\* is not the sentinel -1.
C4_UnknownTextureFallsBackToFlatColor ==
  ( /\ lastCall.op = "SetShaderTexture"
    /\ \A i \in Slots : Entry(i).tag # lastCall.tag )
    => shader["bUseTexture"] # 1 /\ shader["objectTexture"] # -1

\* C5: with two presets of the same tag in the catalog, FindMaterial yields
\* the one appended last.
C5_LastWriteWins ==
  (lastCall.op = "FindMaterial" /\ lastCall.retBool)
    => /\ lastCall.n \in 1..Len(m_objectMaterials)
       /\ m_objectMaterials[lastCall.n].tag = lastCall.tag
       /\ \A k \in (lastCall.n + 1)..Len(m_objectMaterials) :
            m_objectMaterials[k].tag # lastCall.tag

\* C5 as amended: FindMaterial yields the first preset appended with the tag
\* (first write wins), and the caller's struct is a copy of it.
C5_FirstWriteWins ==
  (lastCall.op = "FindMaterial" /\ lastCall.retBool)
    => /\ lastCall.n \in 1..Len(m_objectMaterials)
       /\ m_objectMaterials[lastCall.n].tag = lastCall.tag
       /\ \A k \in 1..(lastCall.n - 1) : m_objectMaterials[k].tag # lastCall.tag
       /\ lastCall.materialOut = m_objectMaterials[lastCall.n]

\* C5 witness: the catalog holds "wood" twice (positions 3 and 20) and
\* FindMaterial("wood") has returned true.
C5_Witness ==
  /\ lastCall.op = "FindMaterial" /\ lastCall.tag = "wood" /\ lastCall.retBool
  /\ Len(m_objectMaterials) = 2 * Len(MaterialPresets)
  /\ m_objectMaterials[3].tag = "wood" /\ m_objectMaterials[20].tag = "wood"

\* C6: after DestroyGLTextures every registered handle has been deleted, none
\* more than once, no later Destroy or Bind is handed a deleted handle, and
\* the lookups no longer return a deleted handle or the slot of one.
C6_DestroyInvalidatesRegistry ==
  /\ lastCall.op = "DestroyGLTextures" => \A i \in Slots : Entry(i).ID \notin glTextureNames
  /\ ~glStaleUse
  /\ (lastCall.op = "FindTextureID" /\ lastCall.retInt # -1)
       => lastCall.retInt \in glTextureNames
  /\ (lastCall.op = "FindTextureSlot" /\ lastCall.retInt # -1)
       => Entry(lastCall.retInt).ID \in glTextureNames

\* C7: SetShaderTexture with a tag that is not in the registry changes
\* neither bUseTexture nor the objectTexture sampler nor the object color.
C7_UnknownTextureLeavesShaderState ==
  [][ ( /\ lastCall'.op = "SetShaderTexture"
        /\ \A i \in Slots : Entry(i).tag # lastCall'.tag )
      => /\ shader'["bUseTexture"] = shader["bUseTexture"]
         /\ shader'["objectTexture"] = shader["objectTexture"]
         /\ shader'["objectColor"] = shader["objectColor"] ]_vars

\* C8: for a material tag that was never defined, FindMaterial returns false
\* and leaves the caller's struct as it was, and SetShaderMaterial writes no
\* uniform at all.
C8_UnknownMaterialChangesNothing ==
  [][ /\ ( /\ lastCall'.op = "FindMaterial"
           /\ \A k \in 1..Len(m_objectMaterials) : m_objectMaterials[k].tag # lastCall'.tag )
         => /\ lastCall'.retBool = FALSE
            /\ lastCall'.materialOut = lastCall'.materialIn
      /\ ( /\ lastCall'.op = "SetShaderMaterial"
           /\ \A k \in 1..Len(m_objectMaterials) : m_objectMaterials[k].tag # lastCall'.tag )
         => /\ shader' = shader
            /\ lastCall'.exit = "return" ]_vars

\* C8 witness: after a defined material was pushed to the uniforms,
\* SetShaderMaterial was called with the undefined tag "marble".
C8_Witness ==
  /\ lastCall.op = "SetShaderMaterial" /\ lastCall.tag = "marble"
  /\ Len(m_objectMaterials) > 0
  /\ shader["material.shininess"] # 0
  /\ shader["bUseTexture"] = 1

\* The registered tags are pairwise distinct.
TagsDistinct == \A i, j \in Slots : i # j => Entry(i).tag # Entry(j).tag

\* C9: with pairwise distinct registered tags, FindTextureSlot gives distinct
\* indices for distinct tags, the value a lookup returns is fixed by the
\* registry and the tag (so repeating it returns the same), and a tag that
\* was never registered yields -1 from FindTextureSlot and FindTextureID.
C9_LookupsUniqueAndStable ==
  TagsDistinct =>
    /\ \A i, j \in Slots : i # j =>
         FindTextureSlotIn(m_textureIDs, m_loadedTextures, Entry(i).tag)
           # FindTextureSlotIn(m_textureIDs, m_loadedTextures, Entry(j).tag)
    /\ lastCall.op = "FindTextureSlot" =>
         IF \E i \in Slots : Entry(i).tag = lastCall.tag
         THEN lastCall.retInt \in Slots /\ Entry(lastCall.retInt).tag = lastCall.tag
         ELSE lastCall.retInt = -1
    /\ lastCall.op = "FindTextureID" =>
         IF \E i \in Slots : Entry(i).tag = lastCall.tag
         THEN \E i \in Slots : Entry(i).tag = lastCall.tag /\ lastCall.retInt = Entry(i).ID
         ELSE lastCall.retInt = -1

\* C9 witness: two textures with distinct tags are registered and
\* FindTextureSlot has returned index 1 for the second.
C9_Witness ==
  /\ m_loadedTextures = 2 /\ TagsDistinct
  /\ lastCall.op = "FindTextureSlot" /\ lastCall.tag = Entry(1).tag /\ lastCall.retInt = 1

\* Every registered handle is a texture name in use: nothing was destroyed.
AllHandlesLive == \A i \in Slots : Entry(i).ID \in glTextureNames

\* C10: after BindGLTextures (no texture having been destroyed) every
\* registered texture i is bound on unit i, and i is the index
\* FindTextureSlot returns for its tag.
C10_BoundOnOwnSlot ==
  (lastCall.op = "BindGLTextures" /\ AllHandlesLive) =>
    \A i \in Slots :
      /\ glBoundTexture[i] = Entry(i).ID
      /\ FindTextureSlotIn(m_textureIDs, m_loadedTextures, Entry(i).tag) = i

\* C10 as amended: every registered texture i is bound on unit i, and i is
\* the index FindTextureSlot returns for its tag unless an earlier entry
\* carries the same tag (then the lookup returns that earlier index).
C10_BoundOnRegistrationOrder ==
  (lastCall.op = "BindGLTextures" /\ AllHandlesLive) =>
    \A i \in Slots :
      /\ glBoundTexture[i] = Entry(i).ID
      /\ (\A j \in 0..(i - 1) : Entry(j).tag # Entry(i).tag)
           => FindTextureSlotIn(m_textureIDs, m_loadedTextures, Entry(i).tag) = i
      /\ (\E j \in 0..(i - 1) : Entry(j).tag = Entry(i).tag)
           => FindTextureSlotIn(m_textureIDs, m_loadedTextures, Entry(i).tag) < i

\* C10 witness: two textures are registered and bound, the second on unit 1.
C10_Witness ==
  /\ lastCall.op = "BindGLTextures" /\ AllHandlesLive
  /\ m_loadedTextures = 2
  /\ glBoundTexture[1] = Entry(1).ID /\ glActiveUnit = 1

\* The number of loads among the first k of a LoadSceneTextures that
\* CreateGLTexture accepted.
RECURSIVE Accepted(_, _)
Accepted(loads, k) ==
  IF k = 0 THEN 0
  ELSE Accepted(loads, k - 1) + (IF ChannelsSupported(loads[k]) THEN 1 ELSE 0)

\* C11: LoadSceneTextures makes its eight load attempts before
\* BindGLTextures and none after, so whichever loads fail, on return every
\* loaded tag is found at a slot whose texture unit has the tag's handle
\* bound (the slots of newly registered tags follow the order of the
\* successful loads), and every failed tag that was not registered before the
\* call looks up as -1.
C11_LoadsPrecedeBind ==
  [][ lastCall'.op = "LoadSceneTextures" =>
      /\ m_loadedTextures' = m_loadedTextures + Accepted(lastCall'.loads, Len(SceneTextures))
      /\ \A k \in 1..Len(SceneTextures) :
           LET tag == SceneTextures[k]
               before == FindTextureSlotIn(m_textureIDs, m_loadedTextures, tag)
               slot == FindTextureSlotIn(m_textureIDs', m_loadedTextures', tag)
               ID == FindTextureIDIn(m_textureIDs', m_loadedTextures', tag)
           IN IF ChannelsSupported(lastCall'.loads[k])
              THEN /\ slot \in 0..(m_loadedTextures' - 1)
                   /\ m_textureIDs'[slot] = [ID |-> ID, tag |-> tag]
                   /\ ID \in glTextureNames'
                   /\ glBoundTexture'[slot] = ID
                   /\ before = -1 =>
                        slot = m_loadedTextures + Accepted(lastCall'.loads, k) - 1
              ELSE before = -1 => (slot = -1 /\ ID = -1) ]_vars

\* C11 witness: "pot" and "wood" had an unsupported channel count, the
\* other six loaded, and "wall" is bound on unit 5.
C11_Witness ==
  /\ lastCall.op = "LoadSceneTextures"
  /\ lastCall.loads = <<1, 1, 3, 3, 3, 3, 3, 3>>
  /\ m_loadedTextures = 6
  /\ Entry(5).tag = "wall" /\ glBoundTexture[5] = Entry(5).ID

\* PrepareScene has run: the catalog holds the presets.
ScenePrepared ==
  /\ Len(m_objectMaterials) >= Len(MaterialPresets)
  /\ \A k \in 1..Len(MaterialPresets) : m_objectMaterials[k] = MaterialPresets[k]

\* LoadSceneTextures has run with all eight loads succeeding.
SceneLoaded ==
  /\ m_loadedTextures = Len(SceneTextures)
  /\ \A k \in 1..Len(SceneTextures) : Entry(k - 1).tag = SceneTextures[k]

\* C12: after PrepareScene and a LoadSceneTextures whose eight loads
\* succeeded, every tag RenderScene passes to SetShaderTexture is in the
\* texture registry and every tag it passes to SetShaderMaterial is in the
\* catalog at the moment of the call: the sampler gets a slot of the
\* registry and FindMaterial finds the preset.
C12_FrameLookupsNeverMiss ==
  (ScenePrepared /\ SceneLoaded /\ pc > 0) =>
    /\ lastCall.op = "SetShaderTexture" =>
         /\ \E i \in Slots : Entry(i).tag = lastCall.tag
         /\ shader["objectTexture"] \in Slots
         /\ Entry(shader["objectTexture"]).tag = lastCall.tag
    /\ lastCall.op = "SetShaderMaterial" =>
         /\ \E k \in 1..Len(m_objectMaterials) : m_objectMaterials[k].tag = lastCall.tag
         /\ FindMaterialIn(m_objectMaterials, lastCall.tag, NoMaterial).ret
         /\ lastCall.exit = "return"

\* C12 witness: in a prepared and loaded scene the frame has reached the
\* last SetShaderTexture of the script, and the sampler is set to the slot of
\* its tag.
C12_Witness ==
  /\ ScenePrepared /\ SceneLoaded /\ pc > 0
  /\ lastCall.op = "SetShaderTexture"
  /\ \A k \in pc..ScriptLen : RenderSceneScript[k].op # "SetShaderTexture"
  /\ Entry(shader["objectTexture"]).tag = lastCall.tag

\* A point scaled, turned about one axis, and moved, each on its own
\* (coordinates in 1/10000).
ScalePoint(p, v) == <<MulFix(p[1], v[1]), MulFix(p[2], v[2]), MulFix(p[3], v[3])>>

RotateXPoint(p, degrees) ==
  <<p[1],
    MulFix(p[2], CosDeg(degrees)) - MulFix(p[3], SinDeg(degrees)),
    MulFix(p[2], SinDeg(degrees)) + MulFix(p[3], CosDeg(degrees))>>

RotateYPoint(p, degrees) ==
  <<MulFix(p[1], CosDeg(degrees)) + MulFix(p[3], SinDeg(degrees)),
    p[2],
    MulFix(p[3], CosDeg(degrees)) - MulFix(p[1], SinDeg(degrees))>>

RotateZPoint(p, degrees) ==
  <<MulFix(p[1], CosDeg(degrees)) - MulFix(p[2], SinDeg(degrees)),
    MulFix(p[1], SinDeg(degrees)) + MulFix(p[2], CosDeg(degrees)),
    p[3]>>

TranslatePoint(p, v) == <<p[1] + v[1], p[2] + v[2], p[3] + v[3]>>

\* The image of the point p under the matrix M.
Apply(M, p) ==
  << MulFix(M[1][1], p[1]) + MulFix(M[1][2], p[2]) + MulFix(M[1][3], p[3]) + M[1][4],
     MulFix(M[2][1], p[1]) + MulFix(M[2][2], p[2]) + MulFix(M[2][3], p[3]) + M[2][4],
     MulFix(M[3][1], p[1]) + MulFix(M[3][2], p[2]) + MulFix(M[3][3], p[3]) + M[3][4] >>

IdentityMatrix ==
  <<<<10000, 0, 0, 0>>, <<0, 10000, 0, 0>>, <<0, 0, 10000, 0>>, <<0, 0, 0, 10000>>>>

TestPoints ==
  {<<10000, 0, 0>>, <<0, 10000, 0>>, <<0, 0, 10000>>, <<10000, 20000, 30000>>}

\* C19: the matrix SetTransformations pushes to "model" is T * Rz * Ry * Rx * S:
\* for rotations by multiples of 90 degrees and whole scales and
\* translations it maps a point p to
\* translate(rotateZ(rotateY(rotateX(scale(p))))); with scale (1,1,1), no
\* rotation and no translation it is the identity; with only a +90 degree
\* Z rotation it maps (1,0,0) to (0,1,0).
C19_ModelMatrixOrder ==
  (lastCall.op = "SetTransformations" /\ m_pShaderManager = "SHADER") =>
    LET t == lastCall.transform
        M == shader["model"]
    IN  /\ \A p \in TestPoints :
             Apply(M, p) =
               TranslatePoint(
                 RotateZPoint(
                   RotateYPoint(
                     RotateXPoint(ScalePoint(p, t.scaleXYZ), t.rotationDegrees[1]),
                     t.rotationDegrees[2]),
                   t.rotationDegrees[3]),
                 t.positionXYZ)
        /\ ( /\ t.scaleXYZ = <<10000, 10000, 10000>>
             /\ t.rotationDegrees = <<0, 0, 0>>
             /\ t.positionXYZ = <<0, 0, 0>> ) => M = IdentityMatrix
        /\ ( /\ t.scaleXYZ = <<10000, 10000, 10000>>
             /\ t.rotationDegrees = <<0, 0, 900000>>
             /\ t.positionXYZ = <<0, 0, 0>> ) => Apply(M, <<10000, 0, 0>>) = <<0, 10000, 0>>

\* C19 witness: SetTransformations was called with scale (2,3,4), a quarter
\* turn about X and about Z, and translation (5,-6,7), and the matrix was
\* pushed.
C19_Witness ==
  /\ lastCall.op = "SetTransformations" /\ m_pShaderManager = "SHADER"
  /\ lastCall.transform = [scaleXYZ |-> <<20000, 30000, 40000>>,
                           rotationDegrees |-> <<900000, 0, 900000>>,
                           positionXYZ |-> <<50000, -60000, 70000>>]
  /\ Apply(shader["model"], <<10000, 0, 0>>) = <<50000, -40000, 70000>>

\* The index of the last call of kind op among the first k calls of the
\* frame, 0 when there is none.
RECURSIVE LastOp(_, _)
LastOp(op, k) ==
  IF k = 0 THEN 0
  ELSE IF RenderSceneScript[k].op = op THEN k
  ELSE LastOp(op, k - 1)

\* With the k-th call of the frame a draw request: the indices of the calls
\* issued since the draw request before it (since the start of the frame for
\* the first).
SinceLastDraw(k) == (LastOp("Draw", k - 1) + 1)..(k - 1)

\* A draw request of the frame has just been issued.
DrawIssued == pc > 1 /\ lastCall.op = "Draw"

\* C13: between every two consecutive draw requests of RenderScene, and
\* before the first, there is at least one SetTransformations call and at
\* least one SetShaderMaterial call.
C13_TransformAndMaterialPerDraw ==
  DrawIssued =>
    /\ \E j \in SinceLastDraw(pc - 1) : RenderSceneScript[j].op = "SetTransformations"
    /\ \E j \in SinceLastDraw(pc - 1) : RenderSceneScript[j].op = "SetShaderMaterial"

\* C13 as amended: every draw request is preceded, since the draw request
\* before it, by a SetTransformations call, whose matrix is in the model
\* uniform at the draw; a SetShaderMaterial call precedes it in the frame,
\* not necessarily since the previous draw.
C13_TransformPerDrawMaterialInFrame ==
  DrawIssued =>
    /\ \E j \in SinceLastDraw(pc - 1) : RenderSceneScript[j].op = "SetTransformations"
    /\ LET c == RenderSceneScript[LastOp("SetTransformations", pc - 2)] IN
         shader["model"] = ModelMatrix(c.scaleXYZ, c.rotationDegrees, c.positionXYZ)
    /\ \E j \in 1..(pc - 2) : RenderSceneScript[j].op = "SetShaderMaterial"

\* C13 witness: the sphere of the first trunk joint (line 933) has been
\* drawn; the last SetShaderMaterial ("bark", line 921) precedes the draw
\* request before it.
C13_Witness ==
  /\ DrawIssued /\ lastCall.n = 933
  /\ LastOp("SetShaderMaterial", pc - 2) < LastOp("Draw", pc - 2)

\* ---------------------------------------------------------------- the tree

\* The SetTransformations call of RenderScene on the given source line has
\* just returned.
JustSet(line) == pc > 0 /\ lastCall.op = "SetTransformations" /\ lastCall.n = line

\* The tip rule of the tree: tip = origin + length * (-sin(angle), cos(angle), 0).
Tip(origin, length, degrees) ==
  <<origin[1] - MulFix(length, SinDeg(degrees)),
    origin[2] + MulFix(length, CosDeg(degrees)),
    origin[3]>>

\* The tip of the cylinder drawn with the transform t: its origin is the
\* position, its length the Y scale, its angle the Z rotation.
TipOf(t) == Tip(t.positionXYZ, t.scaleXYZ[2], t.rotationDegrees[3])

\* The point at the given fraction (in 1/10000) of the length of the
\* cylinder drawn with the transform t.
PointAlong(t, fraction) ==
  Tip(t.positionXYZ, MulFix(t.scaleXYZ[2], fraction), t.rotationDegrees[3])

\* p and q agree within 1e-3 in every coordinate.
WithinTolerance(p, q) == \A i \in 1..3 : p[i] - q[i] \in (-10)..10

\* The pot-rim anchor (potCenterX, potTopY + 0.05, potCenterZ); the soil disk
\* is drawn at (potCenterX, potTopY, potCenterZ).
PotRimAnchor == TranslatePoint(PassedAt(SoilDiskLine).positionXYZ, <<0, 500, 0>>)

\* Trunk joint k of the trigonometric chain: the anchor for k = 0, else the
\* tip of a segment with the length and angle passed for trunk segment k,
\* rooted at joint k - 1 of the chain.
RECURSIVE ChainJoint(_)
ChainJoint(k) ==
  IF k = 0 THEN PotRimAnchor
  ELSE Tip(ChainJoint(k - 1),
           PassedAt(TrunkSegmentLines[k]).scaleXYZ[2],
           PassedAt(TrunkSegmentLines[k]).rotationDegrees[3])

\* C14: the left branch (Z +55, length 1.4) is positioned at trunk joint 2,
\* the tip of trunk segment 2 where segment 3 starts, and the right branch
\* (Z -50, length 1.2) at trunk joint 3, the tip of segment 3 where segment
\* 4 starts.
C14_BranchesAtJoints2And3 ==
  /\ JustSet(TreeLines.leftBranch) =>
       /\ lastCall.transform.rotationDegrees = <<0, 0, 550000>>
       /\ lastCall.transform.scaleXYZ[2] = 14000
       /\ lastCall.transform.positionXYZ = PassedAt(TrunkJointLines[2]).positionXYZ
       /\ lastCall.transform.positionXYZ = PassedAt(TrunkSegmentLines[3]).positionXYZ
  /\ JustSet(TreeLines.rightBranch) =>
       /\ lastCall.transform.rotationDegrees = <<0, 0, -500000>>
       /\ lastCall.transform.scaleXYZ[2] = 12000
       /\ lastCall.transform.positionXYZ = PassedAt(TrunkJointLines[3]).positionXYZ
       /\ lastCall.transform.positionXYZ = PassedAt(TrunkSegmentLines[4]).positionXYZ

\* C15: every trunk joint position RenderScene uses equals, within 1e-3 per
\* coordinate, the accumulated sum of length * (-sin(angle), cos(angle)) over
\* the segments (0.45, -20), (0.75, -15), (0.75, 8), (0.75, 22) from the
\* pot-rim anchor; joint 1 is the anchor plus (0.154, 0.423), and joint 2 is
\* within tolerance of (0.34, potTopY + 1.19).
C15_JointsOnChain ==
  /\ \A k \in 1..Len(TrunkSegmentLines) :
       JustSet(TrunkSegmentLines[k]) =>
         /\ <<lastCall.transform.scaleXYZ[2], lastCall.transform.rotationDegrees[3]>>
              = <<<<4500, -200000>>, <<7500, -150000>>,
                  <<7500, 80000>>, <<7500, 220000>>>>[k]
         /\ WithinTolerance(lastCall.transform.positionXYZ, ChainJoint(k - 1))
  /\ \A k \in 1..Len(TrunkJointLines) :
       JustSet(TrunkJointLines[k]) =>
         WithinTolerance(lastCall.transform.positionXYZ, ChainJoint(k))
  /\ JustSet(TrunkJointLines[1]) =>
       WithinTolerance(lastCall.transform.positionXYZ,
                       TranslatePoint(PotRimAnchor, <<1540, 4230, 0>>))
  /\ JustSet(TrunkJointLines[2]) =>
       WithinTolerance(lastCall.transform.positionXYZ,
                       TranslatePoint(PotRimAnchor, <<3400, 11900 - 500, 0>>))

\* The trunk joint whose sphere is drawn at the position passed on the given
\* line: the joint a branch leaves the trunk at.
JointOf(line) ==
  CHOOSE k \in 1..Len(TrunkJointLines) :
    PassedAt(TrunkJointLines[k]).positionXYZ = PassedAt(line).positionXYZ

\* The branch cylinder of the given line as the trigonometric chain places
\* it: the length and angle passed, rooted at its joint of the chain.
ChainBranch(line) ==
  [PassedAt(line) EXCEPT !.positionXYZ = ChainJoint(JointOf(line))]

\* The sub-twig of the given line as the chain places it: the length and
\* angle passed, rooted at 60% of its branch of the chain.
ChainTwig(line, branchLine) ==
  [PassedAt(line) EXCEPT !.positionXYZ = PointAlong(ChainBranch(branchLine), 6000)]

\* The position the trigonometric chain produces, for the parameters
\* RenderScene passes, for each dependent placement of the tree.
ChainPosition ==
  [leftBranch    |-> ChainBranch(TreeLines.leftBranch).positionXYZ,
   leftTwig      |-> ChainTwig(TreeLines.leftTwig, TreeLines.leftBranch).positionXYZ,
   rightBranch   |-> ChainBranch(TreeLines.rightBranch).positionXYZ,
   rightTwig     |-> ChainTwig(TreeLines.rightTwig, TreeLines.rightBranch).positionXYZ,
   leftCluster   |-> TipOf(ChainBranch(TreeLines.leftBranch)),
   rightCluster  |-> TipOf(ChainBranch(TreeLines.rightBranch)),
   leftTwigLeaf  |-> TipOf(ChainTwig(TreeLines.leftTwig, TreeLines.leftBranch)),
   rightTwigLeaf |-> TipOf(ChainTwig(TreeLines.rightTwig, TreeLines.rightBranch))]

\* C16: the drawn positions are those the trigonometric chain produces for the
\* current trunk parameters: every trunk joint, every branch and sub-twig
\* base, every leaf-cluster anchor and the crown's x coordinate equal, within
\* 1e-3 per coordinate, the position accumulated from the pot-rim anchor with
\* the lengths and angles passed, so that a changed length or angle relocates
\* everything that depends on it.
C16_DrawnPositionsFollowChain ==
  /\ \A k \in 1..Len(TrunkJointLines) :
       JustSet(TrunkJointLines[k]) \/ JustSet(TrunkSegmentLines[k + 1]) =>
         WithinTolerance(lastCall.transform.positionXYZ, ChainJoint(k))
  /\ \A f \in DOMAIN ChainPosition :
       JustSet(TreeLines[f]) =>
         WithinTolerance(lastCall.transform.positionXYZ, ChainPosition[f])
  /\ JustSet(TreeLines.crown) =>
       lastCall.transform.positionXYZ[1]
         - ChainJoint(Len(TrunkSegmentLines))[1] \in (-10)..10

\* C17: the left and right leaf-cluster anchors equal, within 1e-3 per
\* coordinate, the tip origin + length * (-sin(angle), cos(angle)) of their
\* branch cylinder computed from the origin, length and Z angle passed for
\* that branch; each sub-twig's base is the point at 60% of its branch by the
\* same rule, and each sub-twig leaf sphere is at its sub-twig's tip.
C17_AnchorsAtBranchTips ==
  /\ JustSet(TreeLines.leftCluster) =>
       WithinTolerance(lastCall.transform.positionXYZ,
                       TipOf(PassedAt(TreeLines.leftBranch)))
  /\ JustSet(TreeLines.rightCluster) =>
       WithinTolerance(lastCall.transform.positionXYZ,
                       TipOf(PassedAt(TreeLines.rightBranch)))
  /\ JustSet(TreeLines.leftTwig) =>
       WithinTolerance(lastCall.transform.positionXYZ,
                       PointAlong(PassedAt(TreeLines.leftBranch), 6000))
  /\ JustSet(TreeLines.rightTwig) =>
       WithinTolerance(lastCall.transform.positionXYZ,
                       PointAlong(PassedAt(TreeLines.rightBranch), 6000))
  /\ JustSet(TreeLines.leftTwigLeaf) =>
       WithinTolerance(lastCall.transform.positionXYZ,
                       TipOf(PassedAt(TreeLines.leftTwig)))
  /\ JustSet(TreeLines.rightTwigLeaf) =>
       WithinTolerance(lastCall.transform.positionXYZ,
                       TipOf(PassedAt(TreeLines.rightTwig)))

\* C18: the trunk is a chain of four segments: segment 1 is positioned at the
\* pot-rim anchor, the position passed for segment i + 1 is identical to the
\* position passed for the joint sphere at the end of segment i, the segment
\* radii strictly decrease along the chain, and every segment and joint is at
\* the Z coordinate potCenterZ of the soil disc.
C18_TrunkIsChain ==
  /\ JustSet(TrunkSegmentLines[1]) =>
       lastCall.transform.positionXYZ = PotRimAnchor
  /\ \A k \in 1..Len(TrunkJointLines) :
       JustSet(TrunkSegmentLines[k + 1]) =>
         /\ lastCall.transform.positionXYZ = PassedAt(TrunkJointLines[k]).positionXYZ
         /\ lastCall.transform.scaleXYZ[1] < PassedAt(TrunkSegmentLines[k]).scaleXYZ[1]
         /\ lastCall.transform.scaleXYZ[3] < PassedAt(TrunkSegmentLines[k]).scaleXYZ[3]
  /\ \A k \in 1..Len(TrunkSegmentLines) :
       JustSet(TrunkSegmentLines[k]) =>
         lastCall.transform.positionXYZ[3] = PassedAt(SoilDiskLine).positionXYZ[3]
  /\ \A k \in 1..Len(TrunkJointLines) :
       JustSet(TrunkJointLines[k]) =>
         lastCall.transform.positionXYZ[3] = PassedAt(SoilDiskLine).positionXYZ[3]

\* The last trunk segment has just been positioned at the third joint, with a
\* smaller radius than the third segment.
C18_Witness ==
  /\ JustSet(TrunkSegmentLines[4])
  /\ lastCall.transform.positionXYZ = <<2400, 67300, -30000>>
  /\ lastCall.transform.scaleXYZ = <<1200, 7500, 1200>>

\* The tag is in the material catalog.
Defined(tag) == \E k \in 1..Len(m_objectMaterials) : m_objectMaterials[k].tag = tag

\* C20: for a tag DefineObjectMaterials defined, FindMaterial returns true and
\* hands back exactly the preset's diffuse color, specular color and
\* shininess, and SetShaderMaterial, called on a scene manager that has a
\* shader manager, writes exactly these three values to material.diffuseColor,
\* material.specularColor and material.shininess and nothing else.
C20_FindMaterialRoundTrip ==
  [][ /\ (lastCall'.op = "FindMaterial" /\ Defined(lastCall'.tag))
         => /\ lastCall'.retBool
            /\ \E k \in 1..Len(MaterialPresets) :
                 /\ MaterialPresets[k].tag = lastCall'.tag
                 /\ lastCall'.materialOut = MaterialPresets[k]
      /\ ( /\ lastCall'.op = "SetShaderMaterial"
           /\ Defined(lastCall'.tag)
           /\ m_pShaderManager # "NULL" )
         => /\ lastCall'.exit = "return"
            /\ \E k \in 1..Len(MaterialPresets) :
                 /\ MaterialPresets[k].tag = lastCall'.tag
                 /\ shader' =
                      [shader EXCEPT
                         !["material.diffuseColor"] = MaterialPresets[k].diffuseColor,
                         !["material.specularColor"] = MaterialPresets[k].specularColor,
                         !["material.shininess"] = MaterialPresets[k].shininess] ]_vars

\* C20 witness: with the presets defined, SetShaderMaterial("stainless") has
\* returned and the material uniforms hold the "stainless" preset.
C20_Witness ==
  /\ lastCall.op = "SetShaderMaterial" /\ lastCall.tag = "stainless"
  /\ lastCall.exit = "return"
  /\ m_pShaderManager # "NULL"
  /\ Len(m_objectMaterials) = Len(MaterialPresets)
  /\ shader["material.diffuseColor"] = <<4000, 4000, 4100>>
  /\ shader["material.specularColor"] = <<5500, 5500, 5600>>
  /\ shader["material.shininess"] = 480000

\* The presets appended n times.
RECURSIVE PresetsTimes(_)
PresetsTimes(n) == IF n = 0 THEN << >> ELSE PresetsTimes(n - 1) \o MaterialPresets

\* C21: no operation of a frame (SetupSceneLights, the setters and lookups
\* RenderScene calls, the draw requests, RenderScene's return) changes the
\* material catalog or the texture registry: only PrepareScene and
\* LoadSceneTextures do, so the catalog is at all times the presets as
\* PrepareScene appended them.
C21_FrameLeavesCatalogAndRegistry ==
  [][ /\ lastCall'.op \notin {"PrepareScene", "LoadSceneTextures"}
         => /\ m_objectMaterials' = m_objectMaterials
            /\ m_loadedTextures' = m_loadedTextures
            /\ m_textureIDs' = m_textureIDs
      /\ \E n \in 0..MaxDefines : m_objectMaterials' = PresetsTimes(n) ]_vars

\* C21 witness: a whole frame has run on a prepared and loaded scene (the
\* last material it set is in the sink) and the catalog is the presets, the
\* registry the eight scene textures.
C21_Witness ==
  /\ lastCall.op = "RenderScene" /\ lastCall.exit = "return"
  /\ m_objectMaterials = MaterialPresets
  /\ SceneLoaded
  /\ shader["material.diffuseColor"] = <<9500, 9500, 9300>>

\* C22: when SetupSceneLights returns, whatever the light flags were before,
\* bUseLighting and directionalLight.bActive are true, pointLights[0..3] are
\* active, pointLights[4] and the spot light are inactive; a second
\* SetupSceneLights right after the first changes no uniform.
C22_LightStateAfterSetup ==
  [][ (lastCall'.op = "SetupSceneLights" /\ lastCall'.exit = "return")
      => /\ shader'["bUseLighting"] = TRUE
         /\ shader'["directionalLight.bActive"] = TRUE
         /\ \A name \in LightFlags \ {"bUseLighting", "directionalLight.bActive"} :
              shader'[name] = (name \in {"pointLights[0].bActive", "pointLights[1].bActive",
                                         "pointLights[2].bActive", "pointLights[3].bActive"})
         /\ {"pointLights[4].bActive", "spotLight.bActive"} \subseteq LightFlags
         /\ (lastCall.op = "SetupSceneLights" /\ lastCall.exit = "return")
              => shader' = shader ]_vars

\* C22 witness: after a color write, SetupSceneLights has returned on a
\* scene manager with a shader manager: the first point light is placed, the
\* fifth point light and the spot light are off.
C22_Witness ==
  /\ lastCall.op = "SetupSceneLights" /\ lastCall.exit = "return"
  /\ m_pShaderManager = "SHADER"
  /\ shader["pointLights[0].position"] = <<-140000, 90000, 180000>>
  /\ ~shader["pointLights[4].bActive"] /\ ~shader["spotLight.bActive"]
  /\ shader["objectColor"] # <<0, 0, 0, 0>>

\* Every uniform SetupSceneLights writes holds the value it writes.
LightsSet ==
  \A i \in 1..Len(LightUniformWrites) :
    shader[LightUniformWrites[i][1]] = LightUniformWrites[i][2]

\* C23: a frame calls SetupSceneLights exactly once, on entry: the step that
\* enters RenderScene is the SetupSceneLights call and no later step of the
\* frame is one, so at every SetTransformations call and every draw request
\* of the frame SetupSceneLights has returned and its uniforms are set.
C23_LightsOnceBeforeFirstDraw ==
  [][ /\ (lastCall'.op = "SetupSceneLights") <=> (pc = 0 /\ pc' = 1)
      /\ \A i \in 1..ScriptLen : RenderSceneScript[i].op # "SetupSceneLights"
      /\ lastCall'.op \in {"SetTransformations", "Draw"}
         => /\ pc >= 1 /\ pc' = pc + 1
            /\ LightsSet ]_vars

\* C23 witness: the first draw request of a frame (the back wall, line 597)
\* has been issued with the lights set.
C23_Witness ==
  /\ lastCall.op = "Draw" /\ lastCall.n = 597
  /\ \A i \in 1..(pc - 2) : RenderSceneScript[i].op # "Draw"
  /\ LightsSet

\* A sink state in which every uniform differs from anything a frame writes
\* to it: the light flags are the opposite of what SetupSceneLights sets.
OtherShaderState ==
  [name \in UniformNames |->
     IF name \in LightFlags
     THEN ~(CHOOSE v \in BOOLEAN : <<name, v>> \in
                    {LightUniformWrites[i] : i \in 1..Len(LightUniformWrites)})
     ELSE IF name \in BoolUniforms THEN TRUE
     ELSE IF name \in IntUniforms THEN -7
     ELSE IF name = "material.shininess" THEN -1
     ELSE IF name = "UVscale" THEN <<-1, -1>>
     ELSE IF name = "objectColor" THEN <<-1, -1, -1, -1>>
     ELSE IF name = "model" THEN [i \in 1..4 |-> [j \in 1..4 |-> -1]]
     ELSE <<-1, -1, -1>>]

\* to is what a call made of from; elsewhere is what the same call makes of
\* OtherShaderState: the call writes the same uniforms with the same values
\* in both.
SameWrites(from, to, elsewhere) ==
  \E e \in {elsewhere} :
    \A name \in UniformNames :
      IF e[name] = OtherShaderState[name]
      THEN to[name] = from[name]
      ELSE to[name] = e[name]

\* C24: a frame is a fixed sequence of requests whose uniform writes do not
\* depend on the sink: every step of RenderScene is the next call of the
\* script, with the script's arguments, and writes what the same call writes
\* on any other sink state; a RenderScene that returns has written what a
\* RenderScene on any other sink state writes, and a second RenderScene with
\* the same registry and catalog ends in the same sink state.
C24_RedrawIsDeterministic ==
  [][ /\ (lastCall'.op = "SetupSceneLights")
         => SameWrites(shader, shader', SetupSceneLightsOn(OtherShaderState).shader)
      /\ (pc \in 1..ScriptLen /\ pc' = pc + 1)
         => /\ lastCall'.op = RenderSceneScript[pc].op
            /\ lastCall'.n = RenderSceneScript[pc].line
            /\ lastCall'.tag = CallTag(RenderSceneScript[pc])
            /\ lastCall'.transform = CallTransform(RenderSceneScript[pc])
            /\ SameWrites(shader, shader',
                          ExecCall(OtherShaderState, RenderSceneScript[pc]).shader)
      /\ (lastCall'.op = "RenderScene" /\ lastCall'.exit = "return")
         => /\ RenderSceneOn(shader') = Done(shader')
            /\ \E e \in {RenderSceneOn(OtherShaderState).shader} :
                 \A name \in UniformNames :
                   e[name] \in {shader'[name], OtherShaderState[name]} ]_vars

\* C24 witness: a second frame on a prepared and loaded scene has returned:
\* the sink it started from was the one the first frame left.
C24_Witness ==
  /\ lastCall.op = "RenderScene" /\ lastCall.exit = "return"
  /\ ScenePrepared /\ SceneLoaded
  /\ RenderSceneOn(shader) = Done(shader)
  /\ shader["objectTexture"] # -1
  /\ shader["material.shininess"] # 0

\* C25: on a scene manager built with a null shader manager, no operation
\* writes a uniform and none dereferences the null pointer: every step leaves
\* the sink as it was and the process alive.
C25_NullManagerIsNoOp ==
  [][ m_pShaderManager = "NULL" => (shader' = shader /\ ~crashed') ]_vars

\* C26: when CreateGLTexture returns, the texture name it generated, if any,
\* is either in the registry or no longer a texture name: no return path
\* leaves a generated texture that is neither registered nor deleted.
C26_GeneratedTextureRegisteredOrDeleted ==
  [][ (lastCall'.op = "CreateGLTexture" /\ lastCall'.textureID # 0)
      => \/ \E i \in 0..(m_loadedTextures' - 1) : m_textureIDs'[i].ID = lastCall'.textureID
         \/ lastCall'.textureID \notin glTextureNames' ]_vars

\* ------------------------------------------------------- claims: the view

Magnitude(v) == IF v < 0 THEN -v ELSE v

MouseStep == lastCall'.op = "Mouse_Position_Callback"

\* A mouse event that is handled (perspective mode) with gFirstMouse set.
FirstHandledMouseStep ==
  MouseStep /\ lastCall'.tag = "perspective" /\ gFirstMouse

\* C27 as stated: the first mouse event handled after the mouse flag goes
\* from orthographic to perspective, and the first of a run, has
\* xOffset = yOffset = 0. gFirstMouse is set by the switch and at start, is
\* cleared only by a handled mouse event, and that event's offsets are 0.
C27_FirstOffsetIsZero ==
  [][ /\ (g_bOrthographic /\ ~g_bOrthographic') => gFirstMouse'
      /\ (gFirstMouse /\ ~gFirstMouse') => (MouseStep /\ lastCall'.tag = "perspective")
      /\ FirstHandledMouseStep => (lastCall'.xOffset = 0 /\ lastCall'.yOffset = 0) ]_vars

\* C27, amended: on that event each offset is what narrowing the reported
\* coordinate to float loses (at most 2^-24 of the coordinate, 0 for a
\* coordinate a float holds); the stored position never enters it, and the
\* camera turns by that offset.
C27_FirstOffsetIsRoundingResidue ==
  [][ /\ (g_bOrthographic /\ ~g_bOrthographic') => gFirstMouse'
      /\ (gFirstMouse /\ ~gFirstMouse') => (MouseStep /\ lastCall'.tag = "perspective")
      /\ FirstHandledMouseStep =>
           /\ \E p \in MouseInputs :
                /\ gLastX' = ToFloat(p[1])
                /\ gLastY' = ToFloat(p[2])
                /\ lastCall'.xOffset = ToFloat(p[1] - ToFloat(p[1]))
                /\ lastCall'.yOffset = ToFloat(ToFloat(p[2]) - p[2])
                /\ 2^24 * Magnitude(lastCall'.xOffset) <= Magnitude(p[1])
                /\ 2^24 * Magnitude(lastCall'.yOffset) <= Magnitude(p[2])
           /\ lastCall'.exit = "return" =>
                /\ cameraYaw' = cameraYaw + lastCall'.xOffset
                /\ cameraPitch' = cameraPitch + lastCall'.yOffset ]_vars

\* C27 witness: a camera that had been turned by the mouse before has just
\* handled an event with gFirstMouse set again (orthographic and back), at a
\* position away from the stored one that no float holds: the offsets are
\* the narrowing residue, not the distance.
C27_Witness ==
  /\ lastCall.op = "Mouse_Position_Callback"
  /\ lastCall.tag = "perspective"
  /\ lastCall.retBool
  /\ lastCall.exit = "return"
  /\ cameraMoves >= 2
  /\ lastCall.xOffset # 0
  /\ Magnitude(lastCall.xOffset) < 2^5

\* A live ViewManager with a window renders an orthographic projection.
OrthographicShown ==
  \E v \in ViewManagers :
    viewManager[v] = "alive" /\ m_pWindow[v] = "WINDOW" /\ bOrthographicProjection[v]

\* C28: while the projection is orthographic (the member flag that selects
\* the projection matrix of a live view), a Mouse_Position_Callback returns
\* without changing the camera orientation, gLastX, gLastY or gFirstMouse,
\* for any coordinates.
C28_OrthographicDisablesMouseLook ==
  [][ (MouseStep /\ OrthographicShown) =>
        /\ lastCall'.exit = "return"
        /\ UNCHANGED <<cameraYaw, cameraPitch, cameraMoves, gLastX, gLastY, gFirstMouse>> ]_vars

\* A PrepareSceneView of object v that reached ProcessKeyboardEvents with a
\* window and a camera: P down gives perspective, O without P orthographic,
\* neither leaves the mode.
KeysSelectProjection ==
  \A v \in ViewManagers :
    (/\ lastCall'.op = "PrepareSceneView"
     /\ lastCall'.retInt = v
     /\ m_pWindow[v] # "NULL"
     /\ g_pCamera # "NULL") =>
      /\ lastCall'.n \in {2, 3} => ~bOrthographicProjection'[v]
      /\ lastCall'.n = 1 => bOrthographicProjection'[v]
      /\ lastCall'.n = 0 => bOrthographicProjection'[v] = bOrthographicProjection[v]
      /\ lastCall'.tag = (IF bOrthographicProjection'[v] THEN "orthographic" ELSE "perspective")

\* The member flag of every live ViewManager equals the file-level flag.
FlagsAgree ==
  \A v \in ViewManagers :
    viewManager[v] = "alive" => bOrthographicProjection[v] = g_bOrthographic

\* C29: after one ProcessKeyboardEvents call P gives perspective, O without
\* P orthographic, neither leaves the mode; and in every reachable state the
\* member bOrthographicProjection equals the file-level g_bOrthographic.
C29_KeysSelectProjectionAndFlagsAgree ==
  [][ KeysSelectProjection /\ FlagsAgree /\ FlagsAgree' ]_vars

\* C30: whenever Mouse_Position_Callback in perspective mode, or
\* PrepareSceneView with a window, dereferences g_pCamera, it points to a
\* live Camera, in any interleaving of construction, CreateDisplayWindow,
\* mouse events, PrepareSceneView and destruction.
C30_CameraLiveWhenDereferenced ==
  [][ ( \/ (MouseStep /\ lastCall'.tag = "perspective")
        \/ \E v \in ViewManagers :
             /\ lastCall'.op = "PrepareSceneView"
             /\ lastCall'.retInt = v
             /\ m_pWindow[v] # "NULL" ) =>
      (g_pCamera = "CAMERA" /\ ~crashed') ]_vars

====
